---- MODULE Spec2Model ----
(***************************************************************************)
(* Model of the ad-exchange decision engine (src/engine.py,                *)
(* src/distribution_hub.py).                                               *)
(*                                                                         *)
(* Numbers are exact fixed-point integers:                                 *)
(*   bid prices            cents            (0.1  = 10)                    *)
(*   pCTR                  per-mille        (0.02 = 20)                    *)
(*   pCVR                  percent          (0.05 = 5)                     *)
(*   q_factor              tenths           (1.0  = 10)                    *)
(*   eCPM                  1e-5             (0.5  = 50000)                 *)
(*   outlet values ($)     1e-8             (1.25 = 125000000)             *)
(*   latency               milliseconds                                    *)
(* so price * pctr * pcvr * q_factor * 1000 is the integer product of the  *)
(* four scaled factors, and eCPM / 1000 in dollars is the same integer     *)
(* read in units of 1e-8.  Cleared prices and savings are rationals        *)
(* <<numerator, denominator>> in cents, kept in lowest terms.              *)
(***************************************************************************)
EXTENDS Integers, Sequences, FiniteSets, TLC

VARIABLES
    pc,              \* position of the running call: "idle", a stage of AdExchangeEngine.run_auction, or "done"
    op,              \* the call that is running or has just returned
    base_price,      \* CTRBasedBiddingStrategy.base_price, set by setup_dsp (cents)
    ad_request,      \* the request dict of the current call
    all_bids,        \* the bids collected by AdExchangeEngine.run_auction
    funnel,          \* organic_ltv_adjusted, ev_push of the current request
    pre_ecpm,        \* per-bid eCPM computed by the pre-auction stages of the pipeline
    auction_in,      \* the bid list handed to ADX.run_auction
    auction_result,  \* what ADX.run_auction returned
    trace,           \* the whitebox log records of the current request, in order
    result,          \* the value returned by the call
    ip_pool,         \* QualityScorer.ip_pool
    click_coordinates, \* QualityScorer.click_coordinates
    now,             \* wall clock, seconds
    score_out,       \* last return value of QualityScorer.score
    score_calls,     \* how many QualityScorer.score calls were made, by kind of draw
    historical_conversion_distribution, \* SKANOptimizer state
    skan_out,        \* last return value of estimate_pcvr_from_skan
    skan_updates,    \* number of update_conversion_distribution calls so far
    last_update,     \* arguments of the last update_conversion_distribution call
    log_file,        \* the lines of the whitebox log file
    last_logged,     \* the WhiteboxTrace object of the last WhiteboxLogger.log call
    threads,         \* the calls running concurrently: position and local variables of each
    ranked_content,  \* the list handed to re_rank, as the call leaves it
    ads_content,     \* the sponsored items handed to re_rank
    re_ranked        \* what re_rank returned

engineVars == <<pc, op, base_price, ad_request, all_bids, funnel, pre_ecpm,
                auction_in, auction_result, trace, result>>
scorerVars == <<ip_pool, click_coordinates, now, score_out, score_calls>>
skanVars == <<historical_conversion_distribution, skan_out, skan_updates, last_update>>
sinkVars == <<log_file, last_logged>>
raceVars == <<threads>>
rankVars == <<ranked_content, ads_content, re_ranked>>
vars == <<engineVars, scorerVars, skanVars, sinkVars, raceVars, rankVars>>

----------------------------------------------------------------------------
(* Arithmetic helpers *)

Min(a, b) == IF a <= b THEN a ELSE b
Max(a, b) == IF a >= b THEN a ELSE b

RECURSIVE GCD(_, _)
GCD(a, b) == IF b = 0 THEN a ELSE GCD(b, a % b)

\* the rational n/d (d > 0) in lowest terms
Rat(n, d) ==
    LET m == IF n < 0 THEN -n ELSE n
        g == GCD(m, d)
    IN  <<n \div g, d \div g>>
RInt(n) == <<n, 1>>
RLe(a, b) == a[1] * b[2] <= b[1] * a[2]
RLt(a, b) == a[1] * b[2] < b[1] * a[2]
RMin(a, b) == IF RLe(a, b) THEN a ELSE b
RMax(a, b) == IF RLe(b, a) THEN a ELSE b
RSub(a, b) == Rat(a[1] * b[2] - b[1] * a[2], a[2] * b[2])

----------------------------------------------------------------------------
(* Program constants, in the units above *)

QOne == 10                 \* q_factor = 1.0
DefaultFloorPrice == 10    \* floor_price 0.1
Epsilon == 1000            \* the 0.01 added to the second-highest eCPM
TIMEOUT_THRESHOLD == 100   \* ms

----------------------------------------------------------------------------
(* ADX.run_auction *)

\* Adjusted_eCPM = Bid * pCTR * pCVR * q_factor * 1000
AdjustedEcpm(bid_price, pctr, pcvr, q_factor) == bid_price * pctr * pcvr * q_factor

\* original eCPM = Bid * pCTR * pCVR * 1000
OriginalEcpm(bid_price, pctr, pcvr) == bid_price * pctr * pcvr * QOne

\* q_factor used for one bid: the bid's own if it carries one, otherwise the
\* scorer's answer (when a scorer and a request are given), otherwise 1.0
BidQFactor(bid, scoring, q_scored) ==
    IF bid.has_q THEN bid.q_factor
    ELSE IF scoring THEN q_scored
    ELSE QOne

\* the loop over bids: each bid gets ecpm, original_ecpm, q_factor
AnnotateBids(bids, scoring, q_draws) ==
    [i \in 1..Len(bids) |->
        LET b == bids[i]
            q == BidQFactor(b, scoring, q_draws[i])
        IN  [b EXCEPT !.has_q = TRUE,
                      !.q_factor = q,
                      !.ecpm = AdjustedEcpm(b.bid_price, b.pctr, b.pcvr, q),
                      !.original_ecpm = OriginalEcpm(b.bid_price, b.pctr, b.pcvr)]]

\* a faulty variant: b goes before the elements of equal ecpm, so that among equal
\* bids the later one ranks first
RECURSIVE InsertDescBeforeEqual(_, _)
InsertDescBeforeEqual(s, b) ==
    IF s = <<>> THEN <<b>>
    ELSE IF Head(s).ecpm > b.ecpm THEN <<Head(s)>> \o InsertDescBeforeEqual(Tail(s), b)
    ELSE <<b>> \o s

\* insert b after every element whose ecpm is >= b.ecpm (stable, descending)
RECURSIVE InsertDesc(_, _)
InsertDesc(s, b) ==
    IF s = <<>> THEN <<b>>
    ELSE IF Head(s).ecpm >= b.ecpm THEN <<Head(s)>> \o InsertDesc(Tail(s), b)
    ELSE <<b>> \o s

\* sorted(bids, key=ecpm, reverse=True)
RECURSIVE SortedBids(_)
SortedBids(s) ==
    IF s = <<>> THEN <<>>
    ELSE InsertDesc(SortedBids(SubSeq(s, 1, Len(s) - 1)), s[Len(s)])

\* Actual_Paid_Price = (Second_Highest_eCPM + 0.01) / (1000 * pCTR * pCVR), in cents
SecondPrice(second_highest_ecpm, winner_pctr, winner_pcvr) ==
    Rat(second_highest_ecpm + Epsilon, 10 * winner_pctr * winner_pcvr)

\* the price before the clamp
UnclampedPrice(sorted_bids) ==
    IF Len(sorted_bids) > 1
    THEN SecondPrice(sorted_bids[2].ecpm, sorted_bids[1].pctr, sorted_bids[1].pcvr)
    ELSE RInt(IF sorted_bids[1].has_floor THEN sorted_bids[1].floor_price
              ELSE DefaultFloorPrice)

\* a faulty variant: the second price is charged as computed
UnclampedCharge(price, winner_bid) == price

\* actual_paid_price = min(actual_paid_price, winner_bid)
ClampedPrice(price, winner_bid) == RMin(price, RInt(winner_bid))

\* saved_amount = max(0.0, winner_bid - actual_paid_price)
SavedAmount(winner_bid, actual_paid_price) ==
    RMax(RInt(0), RSub(RInt(winner_bid), actual_paid_price))

NoAuction == [none |-> TRUE]

\* a faulty variant: a bid without a competitor is not cleared
ADX_run_auctionNeedsCompetition(bids, scoring, q_draws) ==
    IF Len(bids) <= 1 THEN NoAuction
    ELSE
    LET annotated == AnnotateBids(bids, scoring, q_draws)
        sorted_bids == SortedBids(annotated)
        winner == sorted_bids[1]
        paid == ClampedPrice(UnclampedPrice(sorted_bids), winner.bid_price)
    IN  [none |-> FALSE,
         winner |-> winner,
         winner_bid |-> winner.bid_price,
         winner_ecpm |-> winner.ecpm,
         winner_pctr |-> winner.pctr,
         winner_pcvr |-> winner.pcvr,
         second_best_bid |-> sorted_bids[2].bid_price,
         second_highest_ecpm |-> sorted_bids[2].ecpm,
         actual_paid_price |-> paid,
         saved_amount |-> SavedAmount(winner.bid_price, paid),
         all_bids |-> sorted_bids,
         annotated |-> annotated,
         original_ecpm |-> winner.original_ecpm,
         has_competition |-> TRUE]

ADX_run_auction(bids, scoring, q_draws) ==
    IF Len(bids) = 0 THEN NoAuction
    ELSE
    LET annotated == AnnotateBids(bids, scoring, q_draws)
        sorted_bids == SortedBids(annotated)
        winner == sorted_bids[1]
        paid == ClampedPrice(UnclampedPrice(sorted_bids), winner.bid_price)
    IN  [none |-> FALSE,
         winner |-> winner,
         winner_bid |-> winner.bid_price,
         winner_ecpm |-> winner.ecpm,
         winner_pctr |-> winner.pctr,
         winner_pcvr |-> winner.pcvr,
         second_best_bid |->
            IF Len(sorted_bids) > 1 THEN sorted_bids[2].bid_price
            ELSE IF winner.has_floor THEN winner.floor_price ELSE DefaultFloorPrice,
         second_highest_ecpm |-> IF Len(sorted_bids) > 1 THEN sorted_bids[2].ecpm ELSE 0,
         actual_paid_price |-> paid,
         saved_amount |-> SavedAmount(winner.bid_price, paid),
         all_bids |-> sorted_bids,
         annotated |-> annotated,
         original_ecpm |-> winner.original_ecpm,
         has_competition |-> Len(sorted_bids) > 1]

----------------------------------------------------------------------------
(* QualityScorer *)

IpWindowSec == 300         \* five_min_ago = now - 300
IpMaxCount == 10           \* more than 10 hits of one IP in the window
CoordKeep == 20            \* only the last 20 click coordinates are kept
CoordMinSamples == 5       \* variance is looked at from 5 samples on
VarianceLimit == 100       \* x_variance < 100 or y_variance < 100
IpPenalty == 5             \* q_factor *= 0.5
CoordPenalty == 6          \* q_factor *= 0.6
QWarning == 5              \* decision is PASS when q_factor >= 0.5

\* q * m for two factors in tenths
QMul(q, m) == (q * m) \div QOne

\* max(0.0, min(1.0, q_factor))
Clamp01(q) == Max(0, Min(QOne, q))

RECURSIVE SumSeq(_)
SumSeq(s) == IF s = <<>> THEN 0 ELSE Head(s) + SumSeq(Tail(s))

\* sum((x - mean)^2) / n < limit, with mean = sum(x) / n, cleared of fractions
VarianceBelow(xs, limit) ==
    LET n == Len(xs)
        s1 == SumSeq(xs)
        s2 == SumSeq([i \in 1..n |-> xs[i] * xs[i]])
    IN  n * s2 - s1 * s1 < limit * n * n

IpConcentrated(stamps) == Len(stamps) > IpMaxCount

CoordsFixed(coords) ==
    /\ Len(coords) >= CoordMinSamples
    /\ \/ VarianceBelow([i \in 1..Len(coords) |-> coords[i][1]], VarianceLimit)
       \/ VarianceBelow([i \in 1..Len(coords) |-> coords[i][2]], VarianceLimit)

\* a faulty variant: the synthetic feature is added whenever the draw fires
SyntheticAppliesAlways(ip_hit, coord_hit, synth_draw) == synth_draw

\* the synthetic feature is added only when the draw fires and no other feature was found
SyntheticApplies(ip_hit, coord_hit, synth_draw) == synth_draw /\ ~ip_hit /\ ~coord_hit

FraudFeatures(ip_hit, coord_hit, synth_draw) ==
    (IF ip_hit THEN <<"IP_CONCENTRATED">> ELSE <<>>)
    \o (IF coord_hit THEN <<"FIXED_COORDINATES">> ELSE <<>>)
    \o (IF SyntheticApplies(ip_hit, coord_hit, synth_draw) THEN <<"SYNTHETIC">> ELSE <<>>)

\* a faulty variant: penalties subtracted instead of multiplied, only the upper clamp
QFactorSubtractive(ip_hit, coord_hit, synth_draw, u) ==
    LET q1 == IF ip_hit THEN QOne - IpPenalty ELSE QOne
        q2 == IF coord_hit THEN q1 - CoordPenalty ELSE q1
        q3 == IF SyntheticApplies(ip_hit, coord_hit, synth_draw) THEN QMul(q2, u) ELSE q2
    IN  Min(QOne, q3)

\* q_factor as score computes it from the three signals; u is the uniform(0.3, 0.7) draw
QFactor(ip_hit, coord_hit, synth_draw, u) ==
    LET q1 == IF ip_hit THEN QMul(QOne, IpPenalty) ELSE QOne
        q2 == IF coord_hit THEN QMul(q1, CoordPenalty) ELSE q1
        q3 == IF SyntheticApplies(ip_hit, coord_hit, synth_draw) THEN QMul(q2, u) ELSE q2
    IN  Clamp01(q3)

QualityDecision(q) == IF q >= QWarning THEN "PASS" ELSE "WARNING"

\* the uniform(0.3, 0.7) draws that are modelled
SyntheticDraws == {3, 5, 7}

\* every q_factor a score call can return
ScorerOutcomes ==
    {QFactor(i, c, s, u) : i \in BOOLEAN, c \in BOOLEAN, s \in BOOLEAN, u \in SyntheticDraws}

----------------------------------------------------------------------------
(* Whitebox log records and the ADX filters *)

\* one WhiteboxTrace record: the fields log_decision is given
Rec(node, action, decision, reason_code, internal_variables) ==
    [node |-> node, action |-> action, decision |-> decision,
     reason_code |-> reason_code, internal_variables |-> internal_variables]

\* configuration handed to setup_adx_filters
Blacklist == {"device_blacklist_001", "app_blacklist_001"}
RequiredSize == <<320, 50>>
MaxLatencyMs == 100

\* the averages behind the default loss estimate: bid 0.5, pCTR 2%, pCVR 5%, q 1.0
AvgBid == 50
AvgPctr == 20
AvgPcvr == 5
AvgQFactor == 10
MinNonZeroEcpm == 50000    \* the 0.5 substituted for a zero loss

FilterResult(passed, rec) ==
    [passed |-> passed, reason_code |-> rec.reason_code, rec |-> rec,
     internal_vars |-> rec.internal_variables]

BlacklistFilter_apply(req) ==
    LET iv == [device_id |-> req.device_id, app_id |-> req.app_id]
    IN  IF req.device_id \in Blacklist \/ req.app_id \in Blacklist
        THEN FilterResult(FALSE, Rec("ADX", "BLACKLIST_CHECK", "REJECT", "IN_BLACKLIST", iv))
        ELSE FilterResult(TRUE, Rec("ADX", "BLACKLIST_CHECK", "PASS", "NOT_IN_BLACKLIST", iv))

SizeMatchFilter_apply(req) ==
    LET iv == [ad_size |-> req.ad_size, required_size |-> RequiredSize]
    IN  IF req.ad_size = RequiredSize
        THEN FilterResult(TRUE, Rec("ADX", "SIZE_MATCH_CHECK", "PASS", "SIZE_MATCHED", iv))
        ELSE FilterResult(FALSE, Rec("ADX", "SIZE_MATCH_CHECK", "REJECT", "SIZE_MISMATCH", iv))

\* potential_loss of a rejecting filter: the request's estimated_ecpm when it has
\* one, the average estimate otherwise, and never zero
FilterPotentialLoss(req) ==
    LET avg == AdjustedEcpm(AvgBid, AvgPctr, AvgPcvr, AvgQFactor)
        potential_ecpm ==
            IF req.has_estimated_ecpm THEN req.estimated_ecpm
            ELSE IF avg = 0 THEN MinNonZeroEcpm ELSE avg
    IN  IF potential_ecpm = 0 THEN MinNonZeroEcpm ELSE potential_ecpm

\* latency_ms here is the filter's own random.randint(10, 150) draw
LatencyTimeoutFilter_apply(req, latency_ms) ==
    IF latency_ms <= MaxLatencyMs
    THEN FilterResult(TRUE, Rec("ADX", "LATENCY_CHECK", "PASS", "LATENCY_OK",
                                [latency_ms |-> latency_ms, max_latency_ms |-> MaxLatencyMs]))
    ELSE FilterResult(FALSE, Rec("ADX", "LATENCY_CHECK", "REJECT", "LATENCY_TIMEOUT",
                                 [latency_ms |-> latency_ms, max_latency_ms |-> MaxLatencyMs,
                                  potential_loss |-> FilterPotentialLoss(req),
                                  max_potential_ecpm |-> FilterPotentialLoss(req)]))

\* is_compliant is the filter's random.random() > rejection_rate draw
CreativeMismatchFilter_apply(req, is_compliant) ==
    IF is_compliant
    THEN FilterResult(TRUE, Rec("ADX", "CREATIVE_COMPLIANCE_CHECK", "PASS", "CREATIVE_COMPLIANT",
                                [is_compliant |-> is_compliant]))
    ELSE FilterResult(FALSE, Rec("ADX", "CREATIVE_COMPLIANCE_CHECK", "REJECT", "CREATIVE_MISMATCH",
                                 [is_compliant |-> is_compliant,
                                  potential_loss |-> FilterPotentialLoss(req),
                                  max_potential_ecpm |-> FilterPotentialLoss(req)]))

\* ad_request.get('bid_price', 0)
RequestBidPrice(req) == IF req.has_bid_price THEN req.bid_price ELSE 0

\* FloorPriceFilter.apply: log_decision is called on the pass and on the reject branch
FloorPriceFilter_apply(req, floor_price) ==
    LET bid_price == RequestBidPrice(req)
        iv == [bid_price |-> bid_price, floor_price |-> floor_price]
    IN  IF bid_price >= floor_price
        THEN [passed |-> TRUE, reason_code |-> "BID_ABOVE_FLOOR",
              log |-> <<Rec("ADX", "FLOOR_PRICE_CHECK", "PASS", "BID_ABOVE_FLOOR", iv)>>]
        ELSE [passed |-> FALSE, reason_code |-> "BID_BELOW_FLOOR",
              log |-> <<Rec("ADX", "FLOOR_PRICE_CHECK", "REJECT", "BID_BELOW_FLOOR", iv)>>]

\* FloorPriceHighFilter.apply: the pass branch returns without calling the logger
FloorPriceHighFilter_apply(req, floor_price) ==
    LET bid_price == RequestBidPrice(req)
        iv == [bid_price |-> bid_price, floor_price |-> floor_price,
               price_gap |-> IF bid_price < floor_price THEN floor_price - bid_price ELSE 0]
    IN  IF bid_price >= floor_price
        THEN [passed |-> TRUE, reason_code |-> "BID_ABOVE_FLOOR", log |-> <<>>]
        ELSE [passed |-> FALSE, reason_code |-> "FLOOR_PRICE_HIGH",
              log |-> <<Rec("ADX", "FLOOR_PRICE_HIGH_CHECK", "REJECT", "FLOOR_PRICE_HIGH", iv)>>]

\* ADX.filters after setup_adx_filters, in the order add_filter was called
Filters == <<"BlacklistFilter", "SizeMatchFilter", "LatencyTimeoutFilter", "CreativeMismatchFilter">>

ApplyFilter(name, req, filter_latency, is_compliant) ==
    CASE name = "BlacklistFilter" -> BlacklistFilter_apply(req)
      [] name = "SizeMatchFilter" -> SizeMatchFilter_apply(req)
      [] name = "LatencyTimeoutFilter" -> LatencyTimeoutFilter_apply(req, filter_latency)
      [] name = "CreativeMismatchFilter" -> CreativeMismatchFilter_apply(req, is_compliant)

\* a faulty variant: a rejection does not end the loop, the filters after the
\* rejecting one are evaluated and logged as well
RECURSIVE RunFiltersThrough(_, _, _, _, _)
RunFiltersThrough(i, req, filter_latency, is_compliant, log) ==
    IF i > Len(Filters)
    THEN [passed |-> TRUE, reason_code |-> "ALL_FILTERS_PASSED",
          log |-> Append(log, Rec("ADX", "FINAL_DECISION", "PASS", "ALL_FILTERS_PASSED",
                                  [filters_count |-> Len(Filters)]))]
    ELSE LET r == ApplyFilter(Filters[i], req, filter_latency, is_compliant)
             later == [j \in 1..(Len(Filters) - i) |->
                          ApplyFilter(Filters[i + j], req, filter_latency, is_compliant).rec]
         IN  IF ~r.passed
             THEN [passed |-> FALSE, reason_code |-> r.reason_code,
                   log |-> log \o <<r.rec>> \o later \o
                           <<Rec("ADX", "FINAL_DECISION", "REJECT",
                                 r.reason_code, r.internal_vars)>>]
             ELSE RunFiltersThrough(i + 1, req, filter_latency, is_compliant,
                                    Append(log, r.rec))

\* the loop of ADX.process_request from filter i on; log is what was written so far
RECURSIVE RunFilters(_, _, _, _, _)
RunFilters(i, req, filter_latency, is_compliant, log) ==
    IF i > Len(Filters)
    THEN [passed |-> TRUE, reason_code |-> "ALL_FILTERS_PASSED",
          log |-> Append(log, Rec("ADX", "FINAL_DECISION", "PASS", "ALL_FILTERS_PASSED",
                                  [filters_count |-> Len(Filters)]))]
    ELSE LET r == ApplyFilter(Filters[i], req, filter_latency, is_compliant)
         IN  IF ~r.passed
             THEN [passed |-> FALSE, reason_code |-> r.reason_code,
                   log |-> log \o <<r.rec, Rec("ADX", "FINAL_DECISION", "REJECT",
                                               r.reason_code, r.internal_vars)>>]
             ELSE RunFilters(i + 1, req, filter_latency, is_compliant, Append(log, r.rec))

ADX_process_request(req, filter_latency, is_compliant) ==
    RunFilters(1, req, filter_latency, is_compliant,
               <<Rec("ADX", "REQUEST_RECEIVED", "PASS", "REQUEST_ACCEPTED",
                     [device_id |-> req.device_id])>>)

----------------------------------------------------------------------------
(* Routers *)

\* max(values.items(), key=value): the first entry, in insertion order, that no
\* later entry exceeds and no earlier entry equals or exceeds
RECURSIVE PyMaxFrom(_, _, _)
PyMaxFrom(items, i, best) ==
    IF i > Len(items) THEN best
    ELSE PyMaxFrom(items, i + 1, IF items[i][2] > best[2] THEN items[i] ELSE best)
PyMax(items) == PyMaxFrom(items, 2, items[1])

\* eCPM / 1000.0, dollars in units of 1e-8 from an eCPM in units of 1e-5
AdValue(ecpm) == ecpm

\* InternalOpportunityManager.calculate_total_value: dict order ads, search, push
IOM_calculate_total_value(ecpm_ads, ev_search, ev_push) ==
    LET sel == PyMax(<< <<"ads", ecpm_ads>>, <<"search", ev_search>>, <<"push", ev_push>> >>)
    IN  [v_total |-> sel[2], selected_path |-> sel[1]]

\* DistributionHub.calculate_total_value: dict order search, ads, push
Hub_calculate_total_value(search_ltv, ad_ecpm, push_value) ==
    LET ad_value == AdValue(ad_ecpm)
        sel == PyMax(<< <<"search", search_ltv>>, <<"ads", ad_value>>, <<"push", push_value>> >>)
    IN  [total_value |-> sel[2], selected_path |-> sel[1],
         search_ltv |-> search_ltv, ad_value |-> ad_value, push_value |-> push_value]

\* lifecycle_multiplier, in tenths
LifecycleMultiplier(stage) ==
    CASE stage = "NEW" -> 5
      [] stage = "GROWING" -> 10
      [] stage = "MATURE" -> 15
      [] stage = "CHURN_RISK" -> 8
      [] OTHER -> 10

\* organic_ltv_adjusted = organic_ltv * lifecycle_multiplier
OrganicLtvAdjusted(organic_ltv, stage) == (organic_ltv \div 10) * LifecycleMultiplier(stage)

\* activity_level = min(1.0, len(recent_touches) * 0.2), in tenths
ActivityLevel(recent_touches) == Min(QOne, recent_touches * 2)

\* estimate_push_value for a device whose touch history holds recent_touches
\* touches of the last hour, none of them an ad view (fatigue_level = 0):
\* ev_push = base * (0.5 + activity_level * 0.5) * (1 - 0 * 0.5)
EstimatePushValue(base_value, recent_touches) ==
    (base_value \div 20) * (10 + ActivityLevel(recent_touches))

----------------------------------------------------------------------------
(* DSP.bid with CTRBasedBiddingStrategy, outside the 9-11 and 19-22 hours *)

CtrScoreCap == 50          \* pCTR 0.05 maps to ctr_score 1.0

\* ctr_score platform factor, in tenths
CtrPlatformFactor(platform) ==
    IF platform = "IOS" THEN 11 ELSE IF platform = "ANDROID" THEN 10 ELSE 9

\* _get_multiplier, in tenths
BidMultiplier(platform) == IF platform = "IOS" THEN 12 ELSE 10

\* final_bid = base_price * ctr_score * multiplier, ctr_score = min(pctr / 0.05, 1.0) * factor
DspBidPrice(base, pctr, platform) ==
    (base * Min(pctr, CtrScoreCap) * CtrPlatformFactor(platform) * BidMultiplier(platform))
        \div (CtrScoreCap * 100)

\* the floor applied to each DSP's bid in AdExchangeEngine.run_auction
EngineFloorPrice == 10

\* if bid_price >= floor_price
FloorAdmits(bid_price) == bid_price >= EngineFloorPrice

\* the dict appended to all_bids
EngineBid(i, bid_price, pctr, pcvr) ==
    [dsp_id |-> i, bid_price |-> bid_price, pctr |-> pctr, pcvr |-> pcvr,
     has_floor |-> TRUE, floor_price |-> EngineFloorPrice,
     has_q |-> FALSE, q_factor |-> 0, ecpm |-> 0, original_ecpm |-> 0]

\* the three records DSP.bid and calculate_bid write for one DSP
DspRecords(bid_price, pctr, pcvr) ==
    << Rec("DSP", "CTR_ESTIMATION", "PASS", "CTR_CALCULATED", [pctr |-> pctr, pcvr |-> pcvr]),
       Rec("DSP", "BID_CALCULATION", "PASS", "BID_CALCULATED", [final_bid |-> bid_price]),
       Rec("DSP", "BID_SUBMITTED", "PASS", "BID_SUBMITTED", [final_bid |-> bid_price]) >>

RECURSIVE Flatten(_)
Flatten(ss) == IF ss = <<>> THEN <<>> ELSE Head(ss) \o Flatten(Tail(ss))

----------------------------------------------------------------------------
(* Bounds and input draws *)

NumDsps == 2               \* num_dsps of AdExchangeEngine.run_auction
MaxBids == 2               \* longest bid list handed to ADX.run_auction directly

BasePrices == {50, 30000}                 \* setup_dsp(base_price): 0.5 and 300
Devices == {"device_001", "device_blacklist_001"}
AdSizes == {<<320, 50>>, <<300, 250>>}
LatencyDraws == {100, 120}                \* SSP: random.uniform(50, 150)
LifecycleStages == {"NEW", "GROWING"}
PctrDraws == {5, 20, 50}                  \* DSP: random.uniform(0.001, 0.05)
PcvrDraws == {5, 10}                      \* DSP: random.uniform(0.01, 0.10)
OrganicLtvDraws == {250000000, 400000000} \* sum of five ltv_contribution in [0.5, 5.0]
PushBaseDraws == {30000000, 200000000}    \* random.uniform(0.3, 2.5)
TouchCounts == {0, 5}                     \* touches recorded with add_touch in the last hour
FilterLatencyDraws == {50, 120}           \* LatencyTimeoutFilter: random.randint(10, 150)
EstimatedEcpms == {0, 25000}              \* estimated_ecpm of a request that carries one
RouteValues == {50000000, 100000000, 200000000}

NoResult == [kind |-> "none"]
NoFunnel == [organic_ltv |-> 0, organic_ltv_adjusted |-> 0, ev_push |-> 0]
NoRequest == [device_id |-> "", app_id |-> "", platform |-> "", ad_size |-> <<0, 0>>,
              latency_ms |-> 0, has_estimated_ecpm |-> FALSE, estimated_ecpm |-> 0,
              lifecycle_stage |-> "", has_bid_price |-> FALSE, bid_price |-> 0]

\* a faulty variant: every result is marked ACCEPTED
EngineResultAccepted(status, reason) ==
    [kind |-> "engine", status |-> "ACCEPTED", reason |-> reason,
     has_potential_loss |-> FALSE, potential_loss |-> 0, max_potential_ecpm |-> 0,
     has_opportunity_cost |-> FALSE, opportunity_cost |-> 0,
     organic_ltv |-> 0, ad_value |-> 0, selected_path |-> "none"]

\* the dict an engine call returns; has_* tell which optional keys it carries
EngineResult(status, reason) ==
    [kind |-> "engine", status |-> status, reason |-> reason,
     has_potential_loss |-> FALSE, potential_loss |-> 0, max_potential_ecpm |-> 0,
     has_opportunity_cost |-> FALSE, opportunity_cost |-> 0,
     organic_ltv |-> 0, ad_value |-> 0, selected_path |-> "none"]

----------------------------------------------------------------------------
(* AdExchangeEngine.run_auction, stage by stage *)

\* eCPM as the pre-auction stages compute it: q_factor = bid.get('q_factor', 1.0)
PreAuctionEcpm(bid) ==
    AdjustedEcpm(bid.bid_price, bid.pctr, bid.pcvr, IF bid.has_q THEN bid.q_factor ELSE QOne)

RECURSIVE MaxEcpmFrom(_, _, _)
MaxEcpmFrom(bids, i, best) ==
    IF i > Len(bids) THEN best
    ELSE MaxEcpmFrom(bids, i + 1, Max(best, PreAuctionEcpm(bids[i])))
MaxPreAuctionEcpm(bids) == MaxEcpmFrom(bids, 1, 0)

\* max_potential_ecpm of the timeout branch, with its default substitution
TimeoutPotentialEcpm(bids) ==
    LET m == MaxPreAuctionEcpm(bids)
        avg == AdjustedEcpm(AvgBid, AvgPctr, AvgPcvr, AvgQFactor)
    IN  IF m = 0 THEN (IF avg = 0 THEN MinNonZeroEcpm ELSE avg) ELSE m

\* a faulty variant: the loss is the best bid's eCPM as found, without any default
TimeoutPotentialLossRaw(bids) == MaxPreAuctionEcpm(bids)

\* potential_loss = max_potential_ecpm, replaced by 0.5 when zero
TimeoutPotentialLoss(bids) ==
    LET m == TimeoutPotentialEcpm(bids) IN IF m = 0 THEN MinNonZeroEcpm ELSE m

\* max(all_bids, key=bid_price)
RECURSIVE HighestBidFrom(_, _, _)
HighestBidFrom(bids, i, best) ==
    IF i > Len(bids) THEN best
    ELSE HighestBidFrom(bids, i + 1, IF bids[i].bid_price > best.bid_price THEN bids[i] ELSE best)
HighestBid(bids) == HighestBidFrom(bids, 2, bids[1])

\* steps 0 and 1: traffic source and SSP.generate_request
EngineStart ==
    /\ pc = "idle"
    /\ \E device \in Devices, size \in AdSizes, lat \in LatencyDraws, stage \in LifecycleStages :
        /\ ad_request' = [NoRequest EXCEPT !.device_id = device, !.app_id = "app_001",
                                           !.platform = "ANDROID", !.ad_size = size,
                                           !.latency_ms = lat, !.lifecycle_stage = stage]
        /\ trace' = <<Rec("SSP", "REQUEST_GENERATED", "PASS", "REQUEST_CREATED",
                          [latency_ms |-> lat])>>
    /\ pc' = "collect_bids"
    /\ op' = "engine"
    /\ all_bids' = <<>>
    /\ pre_ecpm' = <<>>
    /\ UNCHANGED <<base_price, funnel, auction_in, auction_result, result>>
    /\ UNCHANGED <<scorerVars, skanVars, sinkVars, raceVars, rankVars>>

\* step 2: every DSP bids; bids at or above the floor are kept
CollectBids ==
    /\ pc = "collect_bids"
    /\ \E draws \in [1..NumDsps -> PctrDraws \X PcvrDraws] :
        LET price(i) == DspBidPrice(base_price, draws[i][1], ad_request.platform)
            offered == [i \in 1..NumDsps |-> EngineBid(i, price(i), draws[i][1], draws[i][2])]
            records == [i \in 1..NumDsps |-> DspRecords(price(i), draws[i][1], draws[i][2])]
        IN  /\ all_bids' = SelectSeq(offered, LAMBDA b : FloorAdmits(b.bid_price))
            /\ trace' = trace \o Flatten(records)
    /\ pc' = "funnel"
    /\ UNCHANGED <<op, base_price, ad_request, funnel, pre_ecpm, auction_in, auction_result, result>>
    /\ UNCHANGED <<scorerVars, skanVars, sinkVars, raceVars, rankVars>>

\* step 1.5: the content funnel gives Organic_LTV; the push value is estimated
FunnelProcessing ==
    /\ pc = "funnel"
    /\ \E ltv \in OrganicLtvDraws, push_base \in PushBaseDraws, touches \in TouchCounts :
        LET adjusted == OrganicLtvAdjusted(ltv, ad_request.lifecycle_stage)
        IN  /\ funnel' = [organic_ltv |-> ltv, organic_ltv_adjusted |-> adjusted,
                          ev_push |-> EstimatePushValue(push_base, touches)]
            /\ trace' = Append(trace, Rec("SEARCH_RECOMMENDATION", "FUNNEL_PROCESSING", "PASS",
                                          "FUNNEL_COMPLETED",
                                          [organic_ltv |-> ltv, organic_ltv_adjusted |-> adjusted]))
    /\ pc' = "latency_check"
    /\ UNCHANGED <<op, base_price, ad_request, all_bids, pre_ecpm, auction_in, auction_result, result>>
    /\ UNCHANGED <<scorerVars, skanVars, sinkVars, raceVars, rankVars>>

\* step 3: if latency_ms > TIMEOUT_THRESHOLD the request is rejected with its potential loss
LatencyCheck ==
    /\ pc = "latency_check"
    /\ IF ad_request.latency_ms > TIMEOUT_THRESHOLD
       THEN /\ pre_ecpm' = [i \in 1..Len(all_bids) |-> PreAuctionEcpm(all_bids[i])]
            /\ trace' = Append(trace, Rec("ADX", "LATENCY_CHECK", "REJECT", "LATENCY_TIMEOUT",
                                [latency_ms |-> ad_request.latency_ms,
                                 max_potential_ecpm |-> TimeoutPotentialEcpm(all_bids),
                                 potential_loss |-> TimeoutPotentialLoss(all_bids),
                                 total_bids |-> Len(all_bids)]))
            /\ result' = [EngineResult("REJECTED", "LATENCY_TIMEOUT") EXCEPT
                            !.has_potential_loss = TRUE,
                            !.potential_loss = TimeoutPotentialLoss(all_bids),
                            !.max_potential_ecpm = TimeoutPotentialEcpm(all_bids)]
            /\ pc' = "done"
       ELSE /\ pc' = "valid_bids_check"
            /\ UNCHANGED <<pre_ecpm, trace, result>>
    /\ UNCHANGED <<op, base_price, ad_request, all_bids, funnel, auction_in, auction_result>>
    /\ UNCHANGED <<scorerVars, skanVars, sinkVars, raceVars, rankVars>>

\* step 4: no bid survived the floor
ValidBidsCheck ==
    /\ pc = "valid_bids_check"
    /\ IF all_bids = <<>>
       THEN /\ result' = EngineResult("REJECTED", "NO_VALID_BIDS")
            /\ pc' = "done"
       ELSE /\ pc' = "admission"
            /\ UNCHANGED result
    /\ UNCHANGED <<op, base_price, ad_request, all_bids, funnel, pre_ecpm, auction_in,
                   auction_result, trace>>
    /\ UNCHANGED <<scorerVars, skanVars, sinkVars, raceVars, rankVars>>

\* step 5: ADX.process_request on a copy of the request carrying the highest bid price
Admission ==
    /\ pc = "admission"
    /\ \E filter_latency \in FilterLatencyDraws, is_compliant \in BOOLEAN :
        LET test_request == [ad_request EXCEPT !.has_bid_price = TRUE,
                                               !.bid_price = HighestBid(all_bids).bid_price]
            r == ADX_process_request(test_request, filter_latency, is_compliant)
        IN  /\ trace' = trace \o r.log
            /\ IF ~r.passed
               THEN /\ result' = EngineResult("REJECTED", r.reason_code)
                    /\ pc' = "done"
               ELSE /\ pc' = "opportunity_cost"
                    /\ UNCHANGED result
    /\ UNCHANGED <<op, base_price, ad_request, all_bids, funnel, pre_ecpm, auction_in, auction_result>>
    /\ UNCHANGED <<scorerVars, skanVars, sinkVars, raceVars, rankVars>>

\* step 6: organic_ltv_adjusted >= max_ad_value and max_ad_value > 0 sends the request to search
OpportunityCostCheck ==
    /\ pc = "opportunity_cost"
    /\ LET max_ad_ecpm == MaxPreAuctionEcpm(all_bids)
           max_ad_value == AdValue(max_ad_ecpm)
           organic == funnel.organic_ltv_adjusted
       IN  /\ pre_ecpm' = [i \in 1..Len(all_bids) |-> PreAuctionEcpm(all_bids[i])]
           /\ IF organic >= max_ad_value /\ max_ad_value > 0
              THEN /\ trace' = Append(trace, Rec("DISTRIBUTION_HUB", "OPPORTUNITY_COST_CHECK",
                                        "REJECT", "ORGANIC_LTV_HIGHER",
                                        [organic_ltv |-> organic, max_ad_ecpm |-> max_ad_ecpm,
                                         max_ad_value |-> max_ad_value,
                                         opportunity_cost |-> organic - max_ad_value,
                                         selected_path |-> "search"]))
                   /\ result' = [EngineResult("REJECTED", "ORGANIC_LTV_HIGHER") EXCEPT
                                    !.has_opportunity_cost = TRUE,
                                    !.opportunity_cost = organic - max_ad_value,
                                    !.organic_ltv = organic,
                                    !.ad_value = max_ad_value,
                                    !.selected_path = "search"]
                   /\ pc' = "done"
              ELSE /\ pc' = "auction"
                   /\ UNCHANGED <<trace, result>>
    /\ UNCHANGED <<op, base_price, ad_request, all_bids, funnel, auction_in, auction_result>>
    /\ UNCHANGED <<scorerVars, skanVars, sinkVars, raceVars, rankVars>>

\* the QUALITY_SCORE record score writes for each bid that carries no q_factor yet
QualityRecords(bids, q_draws) ==
    [i \in 1..Len(bids) |->
        IF bids[i].has_q THEN <<>>
        ELSE <<Rec("ADX", "QUALITY_SCORE", QualityDecision(q_draws[i]), "QUALITY_SCORED",
                   [q_factor |-> q_draws[i], is_high_risk |-> q_draws[i] < QWarning])>>]

\* step 7: ADX.run_auction scores and ranks the bids; the winner is served
AuctionClearing ==
    /\ pc = "auction"
    /\ \E q_draws \in [1..Len(all_bids) -> ScorerOutcomes] :
        LET ar == ADX_run_auction(all_bids, TRUE, q_draws)
            organic == funnel.organic_ltv_adjusted
        IN  /\ auction_in' = all_bids
            /\ auction_result' = ar
            /\ IF ar.none
               THEN /\ result' = EngineResult("REJECTED", "AUCTION_FAILED")
                    /\ UNCHANGED <<all_bids, trace>>
               ELSE LET ad_value == AdValue(ar.winner_ecpm)
                        opportunity_cost == ad_value - organic
                    IN  /\ all_bids' = ar.annotated
                        /\ trace' = trace \o Flatten(QualityRecords(all_bids, q_draws)) \o
                             << Rec("DISTRIBUTION_HUB", "OPPORTUNITY_COST_CHECK", "PASS",
                                    "AD_ECPM_HIGHER",
                                    [organic_ltv |-> organic, ad_ecpm |-> ar.winner_ecpm,
                                     ad_value |-> ad_value, opportunity_cost |-> opportunity_cost,
                                     selected_path |-> "ads"]),
                                Rec("ADX", "AUCTION_RESULT", "PASS", "AUCTION_WON",
                                    [winner_bid |-> ar.winner_bid, winner_ecpm |-> ar.winner_ecpm,
                                     second_highest_ecpm |-> ar.second_highest_ecpm,
                                     actual_paid_price |-> ar.actual_paid_price,
                                     saved_amount |-> ar.saved_amount,
                                     winner_q_factor |-> ar.winner.q_factor,
                                     opportunity_cost |-> opportunity_cost]) >>
                        /\ result' = [EngineResult("ACCEPTED", "AUCTION_WON") EXCEPT
                                        !.has_opportunity_cost = TRUE,
                                        !.opportunity_cost = opportunity_cost,
                                        !.organic_ltv = organic,
                                        !.ad_value = ad_value,
                                        !.selected_path = "ads"]
    /\ pc' = "done"
    /\ UNCHANGED <<op, base_price, ad_request, funnel, pre_ecpm>>
    /\ UNCHANGED <<scorerVars, skanVars, sinkVars, raceVars, rankVars>>

----------------------------------------------------------------------------
(* Direct calls of the public operations *)

\* a request dict without device_id, app_id, ad_size and bid_price: each field holds
\* what ad_request.get(field, default) gives the filters, '' or (0, 0) or 0
MissingFieldsRequest == [NoRequest EXCEPT !.platform = "ANDROID", !.latency_ms = 80]

RequestInputs ==
    {[NoRequest EXCEPT !.device_id = d, !.app_id = "app_001", !.platform = "ANDROID",
                       !.ad_size = s, !.latency_ms = 80,
                       !.has_estimated_ecpm = e[1], !.estimated_ecpm = e[2]] :
        d \in Devices, s \in AdSizes,
        e \in {<<FALSE, 0>>} \cup {<<TRUE, x>> : x \in EstimatedEcpms}}
    \cup {MissingFieldsRequest}

\* bids as a caller of ADX.run_auction may hand them over: with or without a
\* floor_price (0.1 or 0.3), with or without a q_factor (0.5 or 1.0)
BidInputs ==
    {[dsp_id |-> 0, bid_price |-> p, pctr |-> c, pcvr |-> 5,
      has_floor |-> f > 0, floor_price |-> f,
      has_q |-> q > 0, q_factor |-> q, ecpm |-> 0, original_ecpm |-> 0] :
        p \in {0, 10, 30, 50}, c \in {20, 40}, f \in {0, 10, 30}, q \in {0, 5, 10}}

BidListInputs == UNION {[1..n -> BidInputs] : n \in 0..MaxBids}

\* ADX.process_request(ad_request)
CallProcessRequest ==
    /\ pc = "idle"
    /\ \E req \in RequestInputs, filter_latency \in FilterLatencyDraws, is_compliant \in BOOLEAN :
        LET r == ADX_process_request(req, filter_latency, is_compliant)
        IN  /\ ad_request' = req
            /\ trace' = r.log
            /\ result' = [kind |-> "process_request", passed |-> r.passed,
                          reason_code |-> r.reason_code]
    /\ op' = "process_request"
    /\ pc' = "done"
    /\ UNCHANGED <<base_price, all_bids, funnel, pre_ecpm, auction_in, auction_result>>
    /\ UNCHANGED <<scorerVars, skanVars, sinkVars, raceVars, rankVars>>

\* the FilterRule subclasses
FilterClasses ==
    {"BlacklistFilter", "SizeMatchFilter", "LatencyTimeoutFilter", "CreativeMismatchFilter",
     "FloorPriceFilter", "FloorPriceHighFilter"}

\* the floor_price a floor filter is constructed with: 0.1 or 0.3
FloorPrices == {10, 30}

\* requests handed to a filter: without a bid_price, or with one of 0.05 or 0.5
FilterRequests ==
    {[r EXCEPT !.has_bid_price = b[1], !.bid_price = b[2]] :
        r \in RequestInputs, b \in {<<FALSE, 0>>, <<TRUE, 5>>, <<TRUE, 50>>}}

\* what one apply call returns and what it writes to the log
FilterEvaluation(name, req, floor_price, filter_latency, is_compliant) ==
    IF name = "FloorPriceFilter" THEN FloorPriceFilter_apply(req, floor_price)
    ELSE IF name = "FloorPriceHighFilter" THEN FloorPriceHighFilter_apply(req, floor_price)
    ELSE LET r == ApplyFilter(name, req, filter_latency, is_compliant)
         IN  [passed |-> r.passed, reason_code |-> r.reason_code, log |-> <<r.rec>>]

\* <filter>.apply(request_id, ad_request) on one filter object
CallFilterApply ==
    /\ pc = "idle"
    /\ \E name \in FilterClasses, req \in FilterRequests, floor_price \in FloorPrices,
          filter_latency \in FilterLatencyDraws, is_compliant \in BOOLEAN :
        LET r == FilterEvaluation(name, req, floor_price, filter_latency, is_compliant)
        IN  /\ ad_request' = req
            /\ trace' = r.log
            /\ result' = [kind |-> "filter", filter |-> name, passed |-> r.passed,
                          reason_code |-> r.reason_code]
    /\ op' = "filter_apply"
    /\ pc' = "done"
    /\ UNCHANGED <<base_price, all_bids, funnel, pre_ecpm, auction_in, auction_result>>
    /\ UNCHANGED <<scorerVars, skanVars, sinkVars, raceVars, rankVars>>

\* ADX.run_auction(bids, request_id) on an exchange without a request to score
CallRunAuction ==
    /\ pc = "idle"
    /\ \E bids \in BidListInputs :
        /\ auction_in' = bids
        /\ auction_result' = ADX_run_auction(bids, FALSE, [i \in 1..Len(bids) |-> QOne])
    /\ op' = "run_auction"
    /\ pc' = "done"
    /\ UNCHANGED <<base_price, ad_request, all_bids, funnel, pre_ecpm, trace, result>>
    /\ UNCHANGED <<scorerVars, skanVars, sinkVars, raceVars, rankVars>>

\* InternalOpportunityManager.calculate_total_value(ecpm_ads, ev_search, ev_push)
CallIOMTotalValue ==
    /\ pc = "idle"
    /\ \E a \in RouteValues, s \in RouteValues, p \in RouteValues :
        LET r == IOM_calculate_total_value(a, s, p)
        IN  result' = [kind |-> "route", ad |-> a, organic |-> s, push |-> p,
                       selected_path |-> r.selected_path, total |-> r.v_total]
    /\ op' = "iom_total_value"
    /\ pc' = "done"
    /\ UNCHANGED <<base_price, ad_request, all_bids, funnel, pre_ecpm, auction_in,
                   auction_result, trace>>
    /\ UNCHANGED <<scorerVars, skanVars, sinkVars, raceVars, rankVars>>

\* DistributionHub.calculate_total_value; s and p are what _calculate_search_ltv and
\* _calculate_push_value return, e the ad_ecpm argument
CallHubTotalValue ==
    /\ pc = "idle"
    /\ \E e \in RouteValues, s \in RouteValues, p \in RouteValues :
        LET r == Hub_calculate_total_value(s, e, p)
        IN  result' = [kind |-> "route", ad |-> r.ad_value, organic |-> s, push |-> p,
                       selected_path |-> r.selected_path, total |-> r.total_value]
    /\ op' = "hub_total_value"
    /\ pc' = "done"
    /\ UNCHANGED <<base_price, ad_request, all_bids, funnel, pre_ecpm, auction_in,
                   auction_result, trace>>
    /\ UNCHANGED <<scorerVars, skanVars, sinkVars, raceVars, rankVars>>

\* the caller takes the result; the next call starts from a clean slate
Return ==
    /\ pc = "done"
    /\ pc' = "idle"
    /\ op' = "none"
    /\ ad_request' = NoRequest
    /\ all_bids' = <<>>
    /\ funnel' = NoFunnel
    /\ pre_ecpm' = <<>>
    /\ auction_in' = <<>>
    /\ auction_result' = NoAuction
    /\ trace' = <<>>
    /\ result' = NoResult
    /\ UNCHANGED base_price
    /\ UNCHANGED <<scorerVars, skanVars, sinkVars, raceVars, rankVars>>

----------------------------------------------------------------------------
(* QualityScorer.score with its rolling windows *)

MaxScoreCalls == 12        \* score calls in one behaviour
MaxOtherIpCalls == 1       \* of these, calls drawing the second IP address
MaxFarClicks == 1          \* of these, calls drawing the far click position
MaxNow == 400              \* the clock stops here

TickSteps == {400}         \* seconds that may pass between two calls: more than the IP window

IpAddresses == {"192.168.1.1", "192.168.1.2"}
CoordinateKeys == {"device_001_app_001"}
NearClick == <<0, 0>>
FarClick == <<1080, 1920>>

NoBudget == [calls |-> 0, other_ip |-> 0, far_clicks |-> 0]

\* ip_pool[ip] after the append and the five-minute clean-up of that key
IpStampsAfter(stamps, t) ==
    SelectSeq(Append(stamps, t), LAMBDA ts : ts > t - IpWindowSec)

\* click_coordinates[key] after the append and the cut to the last 20
CoordsAfter(coords, click) ==
    LET c == Append(coords, click)
    IN  IF Len(c) > CoordKeep THEN SubSeq(c, Len(c) - CoordKeep + 1, Len(c)) ELSE c

\* QualityScorer.score(request_id, ad_request): ip and click are its random draws,
\* synth_draw is random.random() < fraud_rate, u the uniform(0.3, 0.7) draw
Score ==
    /\ score_calls.calls < MaxScoreCalls
    /\ \E ip \in IpAddresses, key \in CoordinateKeys, click \in {NearClick, FarClick},
          synth_draw \in BOOLEAN, u \in SyntheticDraws :
        LET other == IF ip = "192.168.1.2" THEN 1 ELSE 0
            far == IF click = FarClick THEN 1 ELSE 0
            stamps == IpStampsAfter(ip_pool[ip], now)
            coords == CoordsAfter(click_coordinates[key], click)
            ip_hit == IpConcentrated(stamps)
            coord_hit == CoordsFixed(coords)
            q == QFactor(ip_hit, coord_hit, synth_draw, u)
        IN  /\ score_calls.other_ip + other <= MaxOtherIpCalls
            /\ score_calls.far_clicks + far <= MaxFarClicks
            /\ (synth_draw \/ u = 5)
            /\ ip_pool' = [ip_pool EXCEPT ![ip] = stamps]
            /\ click_coordinates' = [click_coordinates EXCEPT ![key] = coords]
            /\ score_out' = [q_factor |-> q,
                             fraud_features |-> FraudFeatures(ip_hit, coord_hit, synth_draw),
                             decision |-> QualityDecision(q)]
            /\ score_calls' = [calls |-> score_calls.calls + 1,
                               other_ip |-> score_calls.other_ip + other,
                               far_clicks |-> score_calls.far_clicks + far]
    /\ UNCHANGED now
    /\ UNCHANGED <<engineVars, skanVars, sinkVars, raceVars, rankVars>>

\* time passes between two calls
Tick ==
    /\ \E step \in TickSteps :
        /\ now + step <= MaxNow
        /\ now' = now + step
    /\ UNCHANGED <<ip_pool, click_coordinates, score_out, score_calls>>
    /\ UNCHANGED <<engineVars, skanVars, sinkVars, raceVars, rankVars>>

----------------------------------------------------------------------------
(* SKANOptimizer: probabilities are integers in millionths *)

PScale == 1000 * 1000
MaxSkanUpdates == 2        \* update_conversion_distribution calls in one behaviour

ConversionValues == 0..63
UpdateValues == {0, 31, 63, 64}
UpdateWeights == {10, 90}           \* percent; 10 is the default weight
Platforms == {"IOS", "ANDROID"}
ConfidenceFloor == 6 * (PScale \div 10)
ConfidenceGain == 15
AbsentProb == PScale \div 100

\* floor(a * PScale / c) without leaving 32 bits
ScaleDiv(a, c) ==
    LET t == a * 1000
    IN  (t \div c) * 1000 + ((t % c) * 1000) \div c

\* floor(a * b / PScale) up to one unit, without leaving 32 bits
ScaleMul(a, b) ==
    (a * (b \div 1000) + (a * (b % 1000)) \div 1000) \div 1000

RECURSIVE SumProb(_, _)
SumProb(dist, n) == IF n < 0 THEN 0 ELSE dist[n] + SumProb(dist, n - 1)

Normalised(dist) ==
    LET total == SumProb(dist, 63)
    IN  [v \in ConversionValues |-> ScaleDiv(dist[v], total)]

\* _initialize_conversion_distribution before its normalisation
RawInitialProb(i) ==
    IF i <= 20 THEN (6 * (PScale \div 10) * (42 - i)) \div 882
    ELSE IF i <= 40 THEN (3 * (PScale \div 10) * (200 - 3 * (i - 21))) \div 4000
    ELSE ((PScale \div 10) * (115 - (i - 41))) \div 2645

InitialDistribution == Normalised([i \in ConversionValues |-> RawInitialProb(i)])

ConfidenceUnfloored(historical_prob) == Min(PScale, historical_prob * ConfidenceGain)

\* confidence = min(1.0, max(0.6, historical_prob * 15))
Confidence(historical_prob) ==
    Min(PScale, Max(ConfidenceFloor, historical_prob * ConfidenceGain))

\* base_pcvr = 0.01 + conversion_value / 63 * 0.09
BasePcvr(conversion_value) == ((conversion_value + 7) * PScale) \div 700

\* adjusted_pcvr = base_pcvr * (0.7 + confidence * 0.3)
AdjustedPcvr(conversion_value, confidence) ==
    ScaleMul(BasePcvr(conversion_value), 7 * (PScale \div 10) + (3 * confidence) \div 10)

HistoricalProb(dist, conversion_value) ==
    IF conversion_value \in DOMAIN dist THEN dist[conversion_value] ELSE AbsentProb

\* the values _sample_conversion_value can return
SampledValues(dist) == {v \in ConversionValues : dist[v] > 0} \cup {31}

\* estimate_pcvr_from_skan(request_id, ad_request)
Estimate ==
    /\ \E platform \in Platforms :
        IF platform # "IOS"
        THEN skan_out' = [called |-> TRUE, none |-> TRUE]
        ELSE \E conversion_value \in SampledValues(historical_conversion_distribution) :
                LET historical_prob ==
                        HistoricalProb(historical_conversion_distribution, conversion_value)
                    confidence == Confidence(historical_prob)
                IN  skan_out' = [called |-> TRUE, none |-> FALSE,
                                 conversion_value |-> conversion_value,
                                 historical_prob |-> historical_prob,
                                 confidence |-> confidence,
                                 base_pcvr |-> BasePcvr(conversion_value),
                                 adjusted_pcvr |-> AdjustedPcvr(conversion_value, confidence)]
    /\ UNCHANGED <<historical_conversion_distribution, skan_updates, last_update>>
    /\ UNCHANGED <<engineVars, scorerVars, sinkVars, raceVars, rankVars>>

\* a faulty variant: the moving average is stored and nothing is normalised
UpdatedDistributionUnnormalised(dist, conversion_value, weight) ==
    IF conversion_value \notin DOMAIN dist
    THEN dist
    ELSE LET old_prob == dist[conversion_value]
             new_prob == (old_prob * (100 - weight) + weight * PScale) \div 100
         IN  [dist EXCEPT ![conversion_value] = new_prob]

\* update_conversion_distribution(conversion_value, weight)
UpdatedDistribution(dist, conversion_value, weight) ==
    IF conversion_value \notin DOMAIN dist
    THEN dist
    ELSE LET old_prob == dist[conversion_value]
             new_prob == (old_prob * (100 - weight) + weight * PScale) \div 100
         IN  Normalised([dist EXCEPT ![conversion_value] = new_prob])

Update ==
    /\ skan_updates < MaxSkanUpdates
    /\ \E conversion_value \in UpdateValues, weight \in UpdateWeights :
        /\ historical_conversion_distribution' =
              UpdatedDistribution(historical_conversion_distribution, conversion_value, weight)
        /\ last_update' = [called |-> TRUE, conversion_value |-> conversion_value,
                           weight |-> weight]
    /\ skan_updates' = skan_updates + 1
    /\ UNCHANGED skan_out
    /\ UNCHANGED <<engineVars, scorerVars, sinkVars, raceVars, rankVars>>

----------------------------------------------------------------------------
(* WhiteboxTrace.to_log_line and the WhiteboxLogger *)

MaxLogLines == 2

\* Python's None, and json.dumps' rendering of it
None == "None"
JsonNull == "null"

\* the fields of the WhiteboxTrace dataclass without and with a default
RequiredFields ==
    <<"request_id", "timestamp", "node", "action", "decision", "reason_code",
      "internal_variables", "reasoning">>
OptionalFields ==
    <<"pCTR", "pCVR", "eCPM", "latency_ms", "second_best_bid", "actual_paid_price",
      "saved_amount", "q_factor", "quality_details", "original_ecpm", "ev_search",
      "ev_push", "v_total", "selected_path", "user_touch_history", "attribution_channels",
      "traffic_channel", "attribution_cost", "attribution_confidence", "user_ltv",
      "lifecycle_stage", "distribution_outlet">>

FieldSet(fields) == {fields[i] : i \in 1..Len(fields)}
AllFields == FieldSet(RequiredFields) \cup FieldSet(OptionalFields)

\* the optional fields log_decision sets from its keyword arguments
DecisionFields ==
    {"pCTR", "pCVR", "eCPM", "latency_ms", "second_best_bid", "actual_paid_price",
     "saved_amount"}

\* WhiteboxTrace(...): required values as given, optional fields None unless given
WhiteboxTrace(required, optional) ==
    [f \in AllFields |->
        IF f \in FieldSet(RequiredFields) THEN required[f]
        ELSE IF f \in DOMAIN optional THEN optional[f]
        ELSE None]

NoTrace == [f \in AllFields |-> None]

\* json.dumps of one value: None becomes null
JsonValue(v) == IF v = None THEN JsonNull ELSE v

\* json.dumps(data): the members in insertion order
JsonDumps(data) == [i \in 1..Len(data) |-> <<data[i][1], JsonValue(data[i][2])>>]

\* the chain of "if self.f is not None: data[f] = self.f" from optional field i on
RECURSIVE AddOptionalFields(_, _, _)
AddOptionalFields(t, i, data) ==
    IF i > Len(OptionalFields) THEN data
    ELSE LET f == OptionalFields[i]
         IN  AddOptionalFields(t, i + 1,
                               IF t[f] # None THEN Append(data, <<f, t[f]>>) ELSE data)

\* a faulty variant: every field of the dataclass is dumped, None or not
ToLogLineAllFields(t) ==
    JsonDumps([i \in 1..Len(RequiredFields) |-> <<RequiredFields[i], t[RequiredFields[i]]>>]
              \o [i \in 1..Len(OptionalFields) |-> <<OptionalFields[i], t[OptionalFields[i]]>>])

\* WhiteboxTrace.to_log_line
ToLogLine(t) ==
    JsonDumps(AddOptionalFields(t, 1,
        [i \in 1..Len(RequiredFields) |-> <<RequiredFields[i], t[RequiredFields[i]]>>]))

\* the keys of a log line
LineKeys(line) == {line[i][1] : i \in 1..Len(line)}

\* required values of a trace built by a caller, and of one built by log_decision
\* (whose timestamp is datetime.now())
CallerRequired == [f \in FieldSet(RequiredFields) |-> IF f = "timestamp" THEN "t0" ELSE f]
DecisionRequired == [f \in FieldSet(RequiredFields) |-> IF f = "timestamp" THEN "now" ELSE f]

\* optional values handed to WhiteboxTrace: none, a single field holding 0 (a value
\* that is not None but falsy), or every field holding a value
TraceInputs ==
    {WhiteboxTrace(CallerRequired, [f \in {} |-> None])}
    \cup {WhiteboxTrace(CallerRequired, [f \in {g} |-> "0"]) : g \in FieldSet(OptionalFields)}
    \cup {WhiteboxTrace(CallerRequired, [f \in FieldSet(OptionalFields) |-> "x"])}

\* keyword arguments of log_decision: each None or 0; none, one or all of them given
DecisionArgDraws ==
    {a \in [DecisionFields -> {None, "0"}] :
        Cardinality({f \in DecisionFields : a[f] # None}) \in {0, 1, Cardinality(DecisionFields)}}

\* WhiteboxLogger.__init__ (also run by AdExchangeEngine.__init__): open(log_file, 'w')
NewLogger ==
    /\ log_file' = <<>>
    /\ UNCHANGED last_logged
    /\ UNCHANGED <<engineVars, scorerVars, skanVars, raceVars, rankVars>>

\* what WhiteboxLogger.log leaves in the file: open(log_file, 'a') and write one line
Appended(t) == Append(log_file, ToLogLine(t))

\* WhiteboxLogger.log(trace)
Log ==
    /\ Len(log_file) < MaxLogLines
    /\ \E t \in TraceInputs :
        /\ log_file' = Appended(t)
        /\ last_logged' = t
    /\ UNCHANGED <<engineVars, scorerVars, skanVars, raceVars, rankVars>>

\* WhiteboxLogger.log_decision(...): builds the trace and hands it to log
LogDecision ==
    /\ Len(log_file) < MaxLogLines
    /\ \E a \in DecisionArgDraws :
        LET t == WhiteboxTrace(DecisionRequired, a)
        IN  /\ log_file' = Appended(t)
            /\ last_logged' = t
    /\ UNCHANGED <<engineVars, scorerVars, skanVars, raceVars, rankVars>>

----------------------------------------------------------------------------
(* Two calls on one QualityScorer or one SKANOptimizer running concurrently.    *)
(* Neither class takes a lock, so the calls interleave between the statements   *)
(* that read and write the shared dictionaries.                                 *)

ThreadIds == {"t1", "t2"}

RaceUpdateValues == {0, 31}
RaceUpdateWeights == {10, 50}

NoThread == [job |-> "none", pc |-> "done", ip |-> "", missing |-> FALSE, kept |-> <<>>,
             conversion_value |-> 0, weight |-> 0, old_prob |-> 0, total |-> 0]

\* a score call that has drawn its ip_address, and an update call with its arguments
ScoreThread(ip) == [NoThread EXCEPT !.job = "score", !.pc = "check_key", !.ip = ip]
UpdateThread(conversion_value, weight) ==
    [NoThread EXCEPT !.job = "update", !.pc = "read_old",
                     !.conversion_value = conversion_value, !.weight = weight]

At(t, job, stage) == threads[t].job = job /\ threads[t].pc = stage

\* score: if ip_address not in self.ip_pool
ScoreCheckKey(t) ==
    /\ At(t, "score", "check_key")
    /\ threads' = [threads EXCEPT ![t].missing = (ip_pool[threads[t].ip] = <<>>),
                                  ![t].pc = "create_key"]
    /\ UNCHANGED <<engineVars, scorerVars, skanVars, sinkVars, rankVars>>

\* score: self.ip_pool[ip_address] = []
ScoreCreateKey(t) ==
    /\ At(t, "score", "create_key")
    /\ ip_pool' = IF threads[t].missing THEN [ip_pool EXCEPT ![threads[t].ip] = <<>>]
                  ELSE ip_pool
    /\ threads' = [threads EXCEPT ![t].pc = "append"]
    /\ UNCHANGED <<click_coordinates, now, score_out, score_calls>>
    /\ UNCHANGED <<engineVars, skanVars, sinkVars, rankVars>>

\* score: self.ip_pool[ip_address].append(datetime.now())
ScoreAppend(t) ==
    /\ At(t, "score", "append")
    /\ ip_pool' = [ip_pool EXCEPT ![threads[t].ip] = Append(@, now)]
    /\ threads' = [threads EXCEPT ![t].pc = "filter"]
    /\ UNCHANGED <<click_coordinates, now, score_out, score_calls>>
    /\ UNCHANGED <<engineVars, skanVars, sinkVars, rankVars>>

\* score: the list comprehension over self.ip_pool[ip_address] builds the new list
ScoreFilter(t) ==
    /\ At(t, "score", "filter")
    /\ threads' = [threads EXCEPT
                      ![t].kept = SelectSeq(ip_pool[threads[t].ip],
                                            LAMBDA ts : ts > now - IpWindowSec),
                      ![t].pc = "store"]
    /\ UNCHANGED <<engineVars, scorerVars, skanVars, sinkVars, rankVars>>

\* score: the new list is stored as self.ip_pool[ip_address]
ScoreStore(t) ==
    /\ At(t, "score", "store")
    /\ ip_pool' = [ip_pool EXCEPT ![threads[t].ip] = threads[t].kept]
    /\ threads' = [threads EXCEPT ![t].pc = "rest"]
    /\ UNCHANGED <<click_coordinates, now, score_out, score_calls>>
    /\ UNCHANGED <<engineVars, skanVars, sinkVars, rankVars>>

\* score: the rest of the call, from the IP count to the return
ScoreRest(t) ==
    /\ At(t, "score", "rest")
    /\ \E key \in CoordinateKeys, synth_draw \in BOOLEAN, u \in SyntheticDraws :
        LET coords == CoordsAfter(click_coordinates[key], NearClick)
            ip_hit == IpConcentrated(ip_pool[threads[t].ip])
            coord_hit == CoordsFixed(coords)
            q == QFactor(ip_hit, coord_hit, synth_draw, u)
        IN  /\ (synth_draw \/ u = 5)
            /\ click_coordinates' = [click_coordinates EXCEPT ![key] = coords]
            /\ score_out' = [q_factor |-> q,
                             fraud_features |-> FraudFeatures(ip_hit, coord_hit, synth_draw),
                             decision |-> QualityDecision(q)]
    /\ score_calls' = [score_calls EXCEPT !.calls = @ + 1]
    /\ threads' = [threads EXCEPT ![t].pc = "done"]
    /\ UNCHANGED <<ip_pool, now>>
    /\ UNCHANGED <<engineVars, skanVars, sinkVars, rankVars>>

\* update_conversion_distribution: the membership test and the read of old_prob
UpdateReadOld(t) ==
    /\ At(t, "update", "read_old")
    /\ threads' =
          IF threads[t].conversion_value \notin DOMAIN historical_conversion_distribution
          THEN [threads EXCEPT ![t].pc = "done"]
          ELSE [threads EXCEPT
                  ![t].old_prob = historical_conversion_distribution[threads[t].conversion_value],
                  ![t].pc = "write_new"]
    /\ UNCHANGED <<engineVars, scorerVars, skanVars, sinkVars, rankVars>>

\* update_conversion_distribution: new_prob is computed and stored
UpdateWriteNew(t) ==
    /\ At(t, "update", "write_new")
    /\ historical_conversion_distribution' =
          [historical_conversion_distribution EXCEPT ![threads[t].conversion_value] =
              (threads[t].old_prob * (100 - threads[t].weight) + threads[t].weight * PScale)
                  \div 100]
    /\ threads' = [threads EXCEPT ![t].pc = "sum"]
    /\ UNCHANGED <<skan_out, skan_updates, last_update>>
    /\ UNCHANGED <<engineVars, scorerVars, sinkVars, rankVars>>

\* update_conversion_distribution: total = sum(...)
UpdateSum(t) ==
    /\ At(t, "update", "sum")
    /\ threads' = [threads EXCEPT ![t].total = SumProb(historical_conversion_distribution, 63),
                                  ![t].pc = "divide"]
    /\ UNCHANGED <<engineVars, scorerVars, skanVars, sinkVars, rankVars>>

\* update_conversion_distribution: every bucket is divided by total
UpdateDivide(t) ==
    /\ At(t, "update", "divide")
    /\ historical_conversion_distribution' =
          [v \in ConversionValues |->
              ScaleDiv(historical_conversion_distribution[v], threads[t].total)]
    /\ skan_updates' = skan_updates + 1
    /\ last_update' = [called |-> TRUE, conversion_value |-> threads[t].conversion_value,
                       weight |-> threads[t].weight]
    /\ threads' = [threads EXCEPT ![t].pc = "done"]
    /\ UNCHANGED skan_out
    /\ UNCHANGED <<engineVars, scorerVars, sinkVars, rankVars>>

----------------------------------------------------------------------------
(* SearchRecommendationEngine.re_rank *)

MaxRanked == 10            \* longest ranked_content
MaxAds == 2                \* longest ads_content

AdEvery == 5               \* (i + 1) % 5 == 0
SameAuthorWindow == 3      \* re_ranked[-3:]
SameAuthorLimit == 2       \* ... >= 2

Authors == {"author_0", "author_1"}
NoAuthor == "None"         \* c.get('author_id') of an item that has none
ContentType_AD == "ad"

\* item i of ranked_content as fine_rank returns it: scores fall along the list
RankedItem(i, author) ==
    [content_id |-> i, type |-> "article", author_id |-> author,
     ranking_score |-> 100 * (MaxRanked + 2 - i), is_ad |-> FALSE]

\* sponsored item k of ads_content
SponsoredItem(k) ==
    [content_id |-> 0 - k, type |-> "product", author_id |-> NoAuthor,
     ranking_score |-> 0, is_ad |-> FALSE]

\* ad = ads_content[ads_inserted].copy(); ad['type'] = AD; ad['is_ad'] = True
AdCopy(ad) == [ad EXCEPT !.type = ContentType_AD, !.is_ad = TRUE]

\* s[-n:]
LastN(s, n) == IF Len(s) <= n THEN s ELSE SubSeq(s, Len(s) - n + 1, Len(s))

\* len([c for c in s if c.get('author_id') == author_id])
SameAuthorCount(s, author_id) == Cardinality({k \in 1..Len(s) : s[k].author_id = author_id})

\* content['ranking_score'] *= 1.1
Boost(score) == (score * 11) \div 10

\* a faulty variant: an item is skipped only when all of the last three selected share its author
SkippedAfterThree(acc, seen_authors, author_id) ==
    /\ author_id \in seen_authors
    /\ SameAuthorCount(LastN(acc, SameAuthorWindow), author_id) >= SameAuthorWindow

\* the test that skips an item: its author was seen and wrote two of the last three
Skipped(acc, seen_authors, author_id) ==
    /\ author_id \in seen_authors
    /\ SameAuthorCount(LastN(acc, SameAuthorWindow), author_id) >= SameAuthorLimit

\* the loop of re_rank from item i on (i counts from 1, enumerate from 0); ranked is
\* ranked_content with the scores changed so far, acc is re_ranked
RECURSIVE ReRankFrom(_, _, _, _, _, _)
ReRankFrom(i, ranked, ads, acc, seen_authors, ads_inserted) ==
    IF i > Len(ranked) THEN [re_ranked |-> acc, ranked_content |-> ranked]
    ELSE LET author_id == ranked[i].author_id
         IN  IF Skipped(acc, seen_authors, author_id)
             THEN ReRankFrom(i + 1, ranked, ads, acc, seen_authors, ads_inserted)
             ELSE LET content == IF author_id \notin seen_authors
                                 THEN [ranked[i] EXCEPT !.ranking_score = Boost(@)]
                                 ELSE ranked[i]
                      insert == ads # <<>> /\ i % AdEvery = 0 /\ ads_inserted < Len(ads)
                      appended == Append(acc, content)
                  IN  ReRankFrom(i + 1, [ranked EXCEPT ![i] = content], ads,
                                 IF insert THEN Append(appended, AdCopy(ads[ads_inserted + 1]))
                                           ELSE appended,
                                 seen_authors \cup {author_id},
                                 IF insert THEN ads_inserted + 1 ELSE ads_inserted)

re_rank(ranked, ads) == ReRankFrom(1, ranked, ads, <<>>, {}, 0)

\* re_rank(ranked_content, ads_content) on a ranked list and a list of sponsored items
CallReRank ==
    /\ ranked_content = <<>>
    /\ \E n \in 0..MaxRanked, m \in 0..MaxAds :
        \E authors \in [1..n -> Authors] :
            LET ads == [k \in 1..m |-> SponsoredItem(k)]
                r == re_rank([i \in 1..n |-> RankedItem(i, authors[i])], ads)
            IN  /\ ranked_content' = r.ranked_content
                /\ ads_content' = ads
                /\ re_ranked' = r.re_ranked
    /\ UNCHANGED <<engineVars, scorerVars, skanVars, sinkVars, raceVars>>

\* the caller is done with the lists
ReturnReRank ==
    /\ ranked_content # <<>>
    /\ ranked_content' = <<>>
    /\ ads_content' = <<>>
    /\ re_ranked' = <<>>
    /\ UNCHANGED <<engineVars, scorerVars, skanVars, sinkVars, raceVars>>

-----------------------------------------------------------------------------
(* Initial states and specifications *)

\* no re_rank call is outstanding
RankIdle ==
    /\ ranked_content = <<>>
    /\ ads_content = <<>>
    /\ re_ranked = <<>>

SinkIdle ==
    /\ log_file = <<>>
    /\ last_logged = NoTrace

\* no call is running
RaceIdle == threads = [t \in ThreadIds |-> NoThread]

\* a QualityScorer as constructed: no IP and no click seen
ScorerIdle ==
    /\ ip_pool = [ip \in IpAddresses |-> <<>>]
    /\ click_coordinates = [key \in CoordinateKeys |-> <<>>]
    /\ now = 0
    /\ score_out = [q_factor |-> QOne, fraud_features |-> <<>>, decision |-> "NONE"]
    /\ score_calls = NoBudget

SkanIdle ==
    /\ historical_conversion_distribution = InitialDistribution
    /\ skan_out = [called |-> FALSE]
    /\ skan_updates = 0
    /\ last_update = [called |-> FALSE]

EngineIdle ==
    /\ pc = "idle"
    /\ op = "none"
    /\ ad_request = NoRequest
    /\ all_bids = <<>>
    /\ funnel = NoFunnel
    /\ pre_ecpm = <<>>
    /\ auction_in = <<>>
    /\ auction_result = NoAuction
    /\ trace = <<>>
    /\ result = NoResult

\* an engine after setup_adx_filters and setup_dsp
Init ==
    /\ EngineIdle
    /\ base_price \in BasePrices
    /\ ScorerIdle
    /\ SkanIdle
    /\ SinkIdle
    /\ RaceIdle
    /\ RankIdle

Next ==
    \/ EngineStart
    \/ CollectBids
    \/ FunnelProcessing
    \/ LatencyCheck
    \/ ValidBidsCheck
    \/ Admission
    \/ OpportunityCostCheck
    \/ AuctionClearing
    \/ CallProcessRequest
    \/ CallFilterApply
    \/ CallRunAuction
    \/ CallIOMTotalValue
    \/ CallHubTotalValue
    \/ Return

Spec == Init /\ [][Next]_vars

\* a log file with loggers constructed on it and records written to it
NextSink ==
    \/ NewLogger
    \/ Log
    \/ LogDecision

SpecSink == Init /\ [][NextSink]_vars

InitScorer ==
    /\ EngineIdle
    /\ base_price = 50
    /\ ScorerIdle
    /\ SkanIdle
    /\ SinkIdle
    /\ RaceIdle
    /\ RankIdle

NextScorer ==
    \/ Score
    \/ Tick

SpecScorer == InitScorer /\ [][NextScorer]_vars

\* two score calls, or two update_conversion_distribution calls, started together
\* on objects as constructed
InitRace ==
    /\ EngineIdle
    /\ base_price = 50
    /\ ScorerIdle
    /\ SkanIdle
    /\ SinkIdle
    /\ RankIdle
    /\ \/ threads \in [ThreadIds -> {ScoreThread(ip) : ip \in IpAddresses}]
       \/ threads \in [ThreadIds -> {UpdateThread(v, w) : v \in RaceUpdateValues,
                                                          w \in RaceUpdateWeights}]

NextRace ==
    \/ \E t \in ThreadIds : ScoreCheckKey(t)
    \/ \E t \in ThreadIds : ScoreCreateKey(t)
    \/ \E t \in ThreadIds : ScoreAppend(t)
    \/ \E t \in ThreadIds : ScoreFilter(t)
    \/ \E t \in ThreadIds : ScoreStore(t)
    \/ \E t \in ThreadIds : ScoreRest(t)
    \/ \E t \in ThreadIds : UpdateReadOld(t)
    \/ \E t \in ThreadIds : UpdateWriteNew(t)
    \/ \E t \in ThreadIds : UpdateSum(t)
    \/ \E t \in ThreadIds : UpdateDivide(t)

SpecRace == InitRace /\ [][NextRace]_vars

InitSkan ==
    /\ EngineIdle
    /\ base_price = 50
    /\ ScorerIdle
    /\ SkanIdle
    /\ SinkIdle
    /\ RaceIdle
    /\ RankIdle

NextSkan ==
    \/ Estimate
    \/ Update

SpecSkan == InitSkan /\ [][NextSkan]_vars

\* re_rank called on ranked lists, with and without sponsored items
InitRank ==
    /\ EngineIdle
    /\ base_price = 50
    /\ ScorerIdle
    /\ SkanIdle
    /\ SinkIdle
    /\ RaceIdle
    /\ RankIdle

NextRank ==
    \/ CallReRank
    \/ ReturnReRank

SpecRank == InitRank /\ [][NextRank]_vars

----------------------------------------------------------------------------
(* Properties of ADX.run_auction *)

AuctionDone == pc = "done" /\ ~auction_result.none

\* the floor a single bid clears at
FloorOf(bid) == IF bid.has_floor THEN bid.floor_price ELSE DefaultFloorPrice

\* C1: for every bid set with at least two bids, the actual_paid_price that
\* ADX.run_auction returns is at most the winning bid's bid_price and at least 0.
C1_PaidPriceWithinWinningBid ==
    (AuctionDone /\ Len(auction_in) >= 2) =>
        /\ RLe(RInt(0), auction_result.actual_paid_price)
        /\ RLe(auction_result.actual_paid_price, RInt(auction_result.winner_bid))

\* an auction of two bids in which the second price came out above the winner's own bid
C1_Witness ==
    /\ AuctionDone
    /\ Len(auction_in) = 2
    /\ RLt(RInt(auction_result.winner_bid), UnclampedPrice(auction_result.all_bids))
    /\ auction_result.actual_paid_price = RInt(auction_result.winner_bid)

\* C2: given exactly one bid at or above the floor, ADX.run_auction returns
\* saved_amount = 0 and actual_paid_price = the floor price.
C2_SingleBidClearsAtFloorSavingNothing ==
    (AuctionDone /\ Len(auction_in) = 1 /\ auction_in[1].bid_price >= FloorOf(auction_in[1])) =>
        /\ auction_result.saved_amount = RInt(0)
        /\ auction_result.actual_paid_price = RInt(FloorOf(auction_in[1]))

\* C10: in every result of ADX.run_auction, saved_amount is the winning bid price
\* minus actual_paid_price, is never negative, and is zero only when there is no
\* competing bid: every result with at least two bids (and a winner that bid
\* more than nothing) has saved_amount > 0.
C10_SavedAmountZeroOnlyWithoutCompetition ==
    AuctionDone =>
        /\ auction_result.saved_amount =
              RSub(RInt(auction_result.winner_bid), auction_result.actual_paid_price)
        /\ RLe(RInt(0), auction_result.saved_amount)
        /\ (Len(auction_in) >= 2 /\ auction_result.winner_bid > 0
                => RLt(RInt(0), auction_result.saved_amount))

----------------------------------------------------------------------------
(* Properties of AdExchangeEngine.run_auction *)

EngineDone == pc = "done" /\ op = "engine"

\* C3: every eCPM the pipeline compares or reports for a bid is price x pClick x
\* pConversion x qFactor x 1000 with the quality factor the QualityScorer assigned
\* to that bid: the eCPM of the pre-auction opportunity-cost check is the eCPM the
\* auction ranks the same bid by.
C3_OneQualityFactorPerBid ==
    (EngineDone /\ result.reason = "AUCTION_WON") =>
        \A i \in 1..Len(all_bids) :
            /\ all_bids[i].ecpm =
                  AdjustedEcpm(all_bids[i].bid_price, all_bids[i].pctr, all_bids[i].pcvr,
                               all_bids[i].q_factor)
            /\ pre_ecpm[i] = all_bids[i].ecpm

FailsBlacklist(req) == req.device_id \in Blacklist \/ req.app_id \in Blacklist
FailsSize(req) == req.ad_size # RequiredSize
FailsLatency(req) == req.latency_ms > TIMEOUT_THRESHOLD

AdmissionReasons ==
    {"IN_BLACKLIST", "SIZE_MISMATCH", "LATENCY_TIMEOUT", "CREATIVE_MISMATCH", "NO_VALID_BIDS"}

\* C4: admission checks run in the order blacklist, size match, latency, creative
\* compliance, floor price and stop at the first rejection: a rejected request
\* carries the reason of the earliest check in this order that it fails.
C4_EarliestFailingCheckGivesReason ==
    (EngineDone /\ result.status = "REJECTED" /\ result.reason \in AdmissionReasons) =>
        result.reason =
            IF FailsBlacklist(ad_request) THEN "IN_BLACKLIST"
            ELSE IF FailsSize(ad_request) THEN "SIZE_MISMATCH"
            ELSE IF FailsLatency(ad_request) THEN "LATENCY_TIMEOUT"
            ELSE result.reason

\* C5: ties favor organic in every router: when the ad value equals the organic
\* value and both are at least the push value, calculate_total_value of
\* InternalOpportunityManager and of DistributionHub, and the pipeline's inline
\* check, all select the search outlet.
C5_TieSelectsOrganic ==
    /\ (pc = "done" /\ result.kind = "route" /\ result.ad = result.organic
            /\ result.organic >= result.push)
        => result.selected_path = "search"
    /\ (EngineDone /\ result.has_opportunity_cost /\ result.ad_value = result.organic_ltv
            /\ result.organic_ltv >= funnel.ev_push)
        => result.selected_path = "search"

\* C8: a request whose latency exceeds the threshold is REJECTED as LATENCY_TIMEOUT
\* with potential_loss > 0, also when no bid was admitted; and every rejection
\* record of LatencyTimeoutFilter and CreativeMismatchFilter carries
\* potential_loss > 0, also when estimated_ecpm is absent or zero.
C8_TimeoutLossStrictlyPositive ==
    /\ (EngineDone /\ ad_request.latency_ms > TIMEOUT_THRESHOLD) =>
            /\ result.status = "REJECTED"
            /\ result.reason = "LATENCY_TIMEOUT"
            /\ result.has_potential_loss
            /\ result.potential_loss > 0
    /\ \A i \in 1..Len(trace) :
            (trace[i].decision = "REJECT"
                /\ trace[i].reason_code \in {"LATENCY_TIMEOUT", "CREATIVE_MISMATCH"})
            => trace[i].internal_variables.potential_loss > 0

\* a timed-out request for which no DSP bid reached the floor
C8_Witness ==
    /\ EngineDone
    /\ ad_request.latency_ms > TIMEOUT_THRESHOLD
    /\ all_bids = <<>>
    /\ result.reason = "LATENCY_TIMEOUT"
    /\ result.potential_loss = MinNonZeroEcpm

\* the value of the outlet a routing decision chose, and the better of the other two
ChosenValue == IF result.selected_path = "search" THEN result.organic_ltv ELSE result.ad_value
NextBestValue ==
    IF result.selected_path = "search" THEN Max(result.ad_value, funnel.ev_push)
    ELSE Max(result.organic_ltv, funnel.ev_push)

\* C9: the opportunity cost recorded for a routing decision is the chosen outlet's
\* value minus the next-best value among ad, organic and push, and is never negative.
C9_OpportunityCostIsChosenMinusNextBest ==
    (EngineDone /\ result.has_opportunity_cost) =>
        /\ result.opportunity_cost = ChosenValue - NextBestValue
        /\ result.opportunity_cost >= 0

----------------------------------------------------------------------------
(* Properties of QualityScorer.score and SKANOptimizer *)

\* C6: after any sequence of score calls, with any combination of the
\* IP-concentration, fixed-coordinate and synthetic signals firing, the returned
\* q_factor is within [0.0, 1.0].
C6_QFactorWithinUnitInterval ==
    score_out.q_factor >= 0 /\ score_out.q_factor <= QOne

\* a call in which the IP-concentration and the fixed-coordinate signals both fired
C6_Witness ==
    /\ score_calls.calls > IpMaxCount
    /\ score_out.fraud_features = <<"IP_CONCENTRATED", "FIXED_COORDINATES">>
    /\ score_out.q_factor = 3

\* C7: for every sampled bucket and every distribution reachable through
\* update_conversion_distribution, the confidence estimate_pcvr_from_skan
\* computes is within [0.6, 1.0].
C7_ConfidenceWithinRange ==
    (skan_out.called /\ ~skan_out.none) =>
        skan_out.confidence >= ConfidenceFloor /\ skan_out.confidence <= PScale

\* an estimate after an update whose sampled bucket is too rare to reach 0.6 unaided
C7_Witness ==
    /\ skan_out.called
    /\ ~skan_out.none
    /\ skan_updates > 0
    /\ skan_out.historical_prob * ConfidenceGain < ConfidenceFloor
    /\ skan_out.confidence = ConfidenceFloor

----------------------------------------------------------------------------
(* Ranking in ADX.run_auction *)

\* the eCPM values the bids of a list carry
EcpmsOf(bids) == {bids[i].ecpm : i \in 1..Len(bids)}

\* the bids of a list that carry eCPM e, in the order of the list
WithEcpm(bids, e) == SelectSeq(bids, LAMBDA b : b.ecpm = e)

\* the bid set price 0.5, pClick 0.02, pConv 0.05, q 1.0 then price 0.3, pClick 0.04
IsRankingExample(bids) ==
    /\ Len(bids) = 2
    /\ bids[1].bid_price = 50 /\ bids[1].pctr = 20 /\ bids[1].pcvr = 5
    /\ bids[1].has_q /\ bids[1].q_factor = QOne
    /\ bids[2].bid_price = 30 /\ bids[2].pctr = 40 /\ bids[2].pcvr = 5
    /\ bids[2].has_q /\ bids[2].q_factor = QOne

\* C11: ADX.run_auction ranks the bids by adjusted eCPM, highest first, bids of
\* equal adjusted eCPM staying in the order they were submitted in; the winner
\* is the first of the ranking and the second-best eCPM that of the runner-up.
\* For the bid set of IsRankingExample the winner is the second bid (eCPM 0.6)
\* and the second-best eCPM is 0.5.
C11_RankedByAdjustedEcpmStable ==
    AuctionDone =>
        LET ranked == auction_result.all_bids
            scored == auction_result.annotated
        IN  /\ Len(ranked) = Len(auction_in)
            /\ \A i \in 1..Len(scored) :
                  scored[i].ecpm = AdjustedEcpm(auction_in[i].bid_price, auction_in[i].pctr,
                                                auction_in[i].pcvr, scored[i].q_factor)
            /\ \A i \in 1..Len(ranked) - 1 : ranked[i].ecpm >= ranked[i + 1].ecpm
            /\ \A e \in EcpmsOf(scored) \cup EcpmsOf(ranked) :
                  WithEcpm(ranked, e) = WithEcpm(scored, e)
            /\ auction_result.winner = ranked[1]
            /\ auction_result.winner_ecpm = ranked[1].ecpm
            /\ Len(ranked) >= 2 => auction_result.second_highest_ecpm = ranked[2].ecpm
            /\ IsRankingExample(auction_in) =>
                  /\ auction_result.winner.bid_price = 30
                  /\ auction_result.winner_ecpm = 60000
                  /\ auction_result.second_highest_ecpm = 50000

\* two different bids of equal adjusted eCPM: the one submitted first has won
C11_Witness ==
    /\ AuctionDone
    /\ Len(auction_in) = 2
    /\ auction_result.annotated[1] # auction_result.annotated[2]
    /\ auction_result.annotated[1].ecpm = auction_result.annotated[2].ecpm
    /\ auction_result.annotated[1].ecpm > 0
    /\ auction_result.winner = auction_result.annotated[1]

----------------------------------------------------------------------------
(* Outlet selection in AdExchangeEngine.run_auction *)

\* a run that ended with a routing decision
Routed == EngineDone /\ result.has_opportunity_cost

\* C12: the outlet served is the argmax of the ad, organic and push values: when
\* the push value is strictly above both others the pipeline serves push, and it
\* never serves an outlet whose value is strictly below another outlet's.
C12_ServedOutletIsArgmax ==
    Routed =>
        /\ (funnel.ev_push > result.ad_value /\ funnel.ev_push > result.organic_ltv)
              => result.selected_path = "push"
        /\ result.selected_path = "search" =>
              result.organic_ltv >= result.ad_value /\ result.organic_ltv >= funnel.ev_push
        /\ result.selected_path = "ads" =>
              result.ad_value >= result.organic_ltv /\ result.ad_value >= funnel.ev_push

\* C13: the ads outlet is selected only when the ad value served (winning
\* adjusted eCPM / 1000) strictly exceeds the lifecycle-adjusted organic value.
C13_AdsServedOnlyAboveOrganic ==
    (EngineDone /\ result.selected_path = "ads") =>
        /\ result.ad_value = AdValue(auction_result.winner_ecpm)
        /\ result.ad_value > result.organic_ltv

----------------------------------------------------------------------------
(* Termination of AdExchangeEngine.run_auction *)

EngineRunning == op = "engine" /\ pc # "done"

EngineReasons ==
    {"AUCTION_WON", "LATENCY_TIMEOUT", "NO_VALID_BIDS", "IN_BLACKLIST", "SIZE_MISMATCH",
     "CREATIVE_MISMATCH", "ORGANIC_LTV_HIGHER", "AUCTION_FAILED"}

\* the statements of run_auction in program order; "done" is the return
EngineStages ==
    <<"collect_bids", "funnel", "latency_check", "valid_bids_check", "admission",
      "opportunity_cost", "auction", "done">>

StageRank(stage) == CHOOSE i \in 1..Len(EngineStages) : EngineStages[i] = stage

\* C14: every invocation of AdExchangeEngine.run_auction terminates and returns
\* exactly one result whose status is ACCEPTED or REJECTED and whose reason is one
\* of the eight reasons; status is ACCEPTED exactly when the reason is AUCTION_WON.
\* Termination is stated as progress: a running call is always at one of the
\* stages, holds no result yet, and every step it takes moves it to a strictly
\* later stage, so that it returns after at most Len(EngineStages) steps; the
\* result it returned stays as it is until the caller takes it.
C14_EveryRunEndsWithOneResult ==
    /\ [](EngineRunning =>
            /\ result = NoResult
            /\ \E i \in 1..Len(EngineStages) : EngineStages[i] = pc)
    /\ [](EngineDone =>
            /\ result.kind = "engine"
            /\ result.status \in {"ACCEPTED", "REJECTED"}
            /\ result.reason \in EngineReasons
            /\ (result.status = "ACCEPTED" <=> result.reason = "AUCTION_WON"))
    /\ [][EngineRunning => (op' = "engine" /\ StageRank(pc') > StageRank(pc))]_vars
    /\ [][EngineDone => (result' = result \/ pc' = "idle")]_vars

\* a run that went through every stage and was accepted
C14_Witness ==
    /\ EngineDone
    /\ result.status = "ACCEPTED"
    /\ result.reason = "AUCTION_WON"
    /\ ~auction_result.none

----------------------------------------------------------------------------
(* One trace record per filter evaluation *)

\* the records of a log that a floor-price check wrote
FloorCheckRecords(log) ==
    SelectSeq(log, LAMBDA r : r.action \in {"FLOOR_PRICE_CHECK", "FLOOR_PRICE_HIGH_CHECK"})

\* C15: every filter evaluation, pass or reject, appends exactly one trace record:
\* a single apply call of any of the six filters leaves one record, and the engine
\* leaves one floor-check record for each bid it collected from a DSP.
C15_OneRecordPerFilterEvaluation ==
    /\ (op = "filter_apply" /\ pc = "done") => Len(trace) = 1
    /\ (op = "engine" /\ pc = "funnel") => Len(FloorCheckRecords(trace)) = NumDsps

----------------------------------------------------------------------------
(* Trace lines *)

\* C16: every line to_log_line produces contains the eight required fields, and an
\* optional field is in the line exactly when its value in the trace object is not
\* None; no optional field is written as null.
C16_LineHoldsRequiredAndNonNoneFields ==
    log_file # <<>> =>
        LET line == log_file[Len(log_file)]
        IN  /\ FieldSet(RequiredFields) \subseteq LineKeys(line)
            /\ \A f \in FieldSet(OptionalFields) : f \in LineKeys(line) <=> last_logged[f] # None
            /\ \A n \in 1..Len(log_file) : \A i \in 1..Len(log_file[n]) :
                  log_file[n][i][1] \in FieldSet(OptionalFields) => log_file[n][i][2] # JsonNull

\* the last trace logged has an optional field holding 0 and another holding None
C16_Witness ==
    /\ log_file # <<>>
    /\ last_logged["eCPM"] = "0"
    /\ last_logged["pCTR"] = None
    /\ <<"eCPM", "0">> \in {log_file[Len(log_file)][i] : i \in 1..Len(log_file[Len(log_file)])}

\* C17: the log file is append-only: whatever a logger construction, log or
\* log_decision does, the lines written before are still there, unchanged and in
\* order, as a prefix of the file.
C17_LogFileAppendOnly ==
    [][/\ Len(log_file') >= Len(log_file)
       /\ SubSeq(log_file', 1, Len(log_file)) = log_file]_vars

----------------------------------------------------------------------------
(* Scorer state across requests *)

\* C18: once a score call has returned, every device+app key holds at most the 20
\* most recent click coordinates and no IP key, whether it was the one just read or
\* not, holds a timestamp older than five minutes.
C18_ScorerStateEvictedOnEveryCall ==
    [][(score_calls'.calls > score_calls.calls) =>
          /\ \A key \in CoordinateKeys : Len(click_coordinates'[key]) <= CoordKeep
          /\ \A ip \in IpAddresses : \A i \in 1..Len(ip_pool'[ip]) :
                ip_pool'[ip][i] > now' - IpWindowSec]_vars

----------------------------------------------------------------------------
(* The SKAN distribution under updates *)

\* the distance of the total probability from 1; every bucket is rounded down to
\* a millionth, so a normalised distribution is short of 1 by less than one
\* millionth per bucket
SumError(dist) ==
    LET total == SumProb(dist, 63)
    IN  IF total > PScale THEN total - PScale ELSE PScale - total

\* C20: after any sequence of update_conversion_distribution calls the distribution
\* has exactly the buckets 0..63, every probability is non-negative and the
\* probabilities sum to 1 (up to the rounding of the 64 buckets); a call with a
\* bucket outside 0..63 leaves the distribution as it was.
C20_DistributionStaysNormalised ==
    /\ [](/\ DOMAIN historical_conversion_distribution = ConversionValues
          /\ \A v \in ConversionValues : historical_conversion_distribution[v] >= 0
          /\ SumError(historical_conversion_distribution) <= Cardinality(ConversionValues))
    /\ [][(skan_updates' > skan_updates /\ last_update'.conversion_value \notin ConversionValues)
            => historical_conversion_distribution' = historical_conversion_distribution]_vars

\* two updates were made, the last one on a bucket of the value space, and the
\* distribution is no longer the initial one
C20_Witness ==
    /\ skan_updates >= 2
    /\ last_update.called
    /\ last_update.conversion_value \in ConversionValues
    /\ historical_conversion_distribution # InitialDistribution

----------------------------------------------------------------------------
(* Concurrent calls *)

BothDone(job) == \A t \in ThreadIds : threads[t].job = job /\ threads[t].pc = "done"

\* the distribution after the two updates ran one after the other, in either order
SerialDistributions ==
    {UpdatedDistribution(
        UpdatedDistribution(InitialDistribution, threads[a].conversion_value, threads[a].weight),
        threads[b].conversion_value, threads[b].weight) :
        <<a, b>> \in {<<"t1", "t2">>, <<"t2", "t1">>}}

\* C19: when two score calls (or two update_conversion_distribution calls) run
\* concurrently no update is lost: once both have returned, the window of every
\* IP holds one entry for each call that drew it, and the distribution is the one
\* some serial order of the two updates gives.
C19_ConcurrentCallsLoseNoUpdate ==
    /\ BothDone("score") =>
          \A ip \in IpAddresses :
              Len(ip_pool[ip]) = Cardinality({t \in ThreadIds : threads[t].ip = ip})
    /\ BothDone("update") => historical_conversion_distribution \in SerialDistributions

----------------------------------------------------------------------------
(* Stage order in AdExchangeEngine.run_auction *)

\* the actions of the records a log holds
ActionsIn(log) == {log[i].action : i \in 1..Len(log)}

ChainReasons == {"IN_BLACKLIST", "SIZE_MISMATCH", "LATENCY_TIMEOUT", "CREATIVE_MISMATCH"}

\* C21: estimation, bidding and the content funnel run only for admitted requests:
\* the trace of a request the admission chain rejected holds no CTR_ESTIMATION,
\* BID_SUBMITTED, SKAN_OPTIMIZATION or FUNNEL_PROCESSING record.
C21_NoBiddingForRejectedRequests ==
    (EngineDone /\ result.reason \in ChainReasons) =>
        ActionsIn(trace) \cap {"CTR_ESTIMATION", "BID_SUBMITTED", "SKAN_OPTIMIZATION",
                               "FUNNEL_PROCESSING"} = {}

\* an engine run or a process_request call that ended with an admission rejection
AdmissionRejected ==
    \/ EngineDone /\ result.status = "REJECTED" /\ result.reason \in AdmissionReasons
    \/ pc = "done" /\ op = "process_request" /\ ~result.passed

ReturnedReason == IF op = "engine" THEN result.reason ELSE result.reason_code

\* C22: once an admission check rejects, all later stages are skipped: the trace
\* holds no QUALITY_SCORE, OPPORTUNITY_COST_CHECK or AUCTION_RESULT record, the
\* rejecting record is followed by nothing but the FINAL_DECISION of its chain (no
\* later filter is evaluated), and its reason code is the reason returned.
C22_RejectionSkipsLaterStages ==
    AdmissionRejected =>
        /\ ActionsIn(trace) \cap {"QUALITY_SCORE", "OPPORTUNITY_COST_CHECK", "AUCTION_RESULT"} = {}
        /\ \A i \in 1..Len(trace) :
              trace[i].decision = "REJECT" =>
                  /\ trace[i].reason_code = ReturnedReason
                  /\ \A j \in (i + 1)..Len(trace) :
                        /\ trace[j].action = "FINAL_DECISION"
                        /\ trace[j].reason_code = ReturnedReason

\* an engine run rejected by the first filter of a chain that has three more
C22_Witness ==
    /\ EngineDone
    /\ result.reason = "IN_BLACKLIST"
    /\ trace[Len(trace)].action = "FINAL_DECISION"
    /\ trace[Len(trace) - 1].action = "BLACKLIST_CHECK"
    /\ ad_request.ad_size # RequiredSize

\* C23: AUCTION_FAILED is unreachable in AdExchangeEngine.run_auction: when the
\* pipeline reaches auction clearing the bid set holds at least one bid, and
\* ADX.run_auction returns None only for an empty bid list.
C23_AuctionFailedUnreachable ==
    /\ (op = "engine" /\ pc = "auction") => Len(all_bids) >= 1
    /\ EngineDone => result.reason # "AUCTION_FAILED"
    /\ (pc = "done" /\ op = "run_auction") => (auction_result.none <=> auction_in = <<>>)
    /\ (EngineDone /\ auction_in # <<>>) => ~auction_result.none

\* the pipeline reached auction clearing and the auction returned a result
C23_Witness ==
    /\ EngineDone
    /\ Len(auction_in) >= 1
    /\ ~auction_result.none
    /\ result.reason = "AUCTION_WON"

\* AdExchangeEngine.setup_adx_filters(floor_price=...): the four add_filter calls;
\* floor_price is handed to none of them and is stored nowhere
setup_adx_filters(floor_price) == Filters

\* the floors setup_adx_filters is called with: the default 0.1, or 50
SetupFloorPrices == {10, 5000}

\* C24: every bid that enters auction clearing has a price at or above the floor
\* configured through setup_adx_filters(floor_price=...), and a single bid
\* clears at that same configured floor.
C24_ConfiguredFloorBoundsAuctionBids ==
    \A floor_price \in SetupFloorPrices :
        Filters = setup_adx_filters(floor_price) =>
            /\ (op = "engine" /\ pc = "auction") =>
                   \A i \in 1..Len(all_bids) : all_bids[i].bid_price >= floor_price
            /\ (EngineDone /\ result.reason = "AUCTION_WON") =>
                   /\ \A i \in 1..Len(auction_in) : auction_in[i].bid_price >= floor_price
                   /\ Len(auction_in) = 1 => auction_result.actual_paid_price = floor_price

\* C25: a request is rejected with LATENCY_TIMEOUT exactly when its own
\* latency_ms exceeds the max_latency_ms the chain was configured with; a request
\* within the budget is never rejected for latency.
C25_LatencyRejectionFollowsRequestLatency ==
    /\ EngineDone =>
          (result.reason = "LATENCY_TIMEOUT" <=> ad_request.latency_ms > MaxLatencyMs)
    /\ (pc = "done" /\ op = "process_request" /\ result.reason_code = "LATENCY_TIMEOUT") =>
          ad_request.latency_ms > MaxLatencyMs

\* C26: the QualityScorer is evaluated once per request: a cleared request has
\* exactly one QUALITY_SCORE record and all of its bids carry the same q_factor.
C26_ScorerRunsOncePerRequest ==
    (EngineDone /\ result.reason = "AUCTION_WON") =>
        /\ Cardinality({i \in 1..Len(trace) : trace[i].action = "QUALITY_SCORE"}) = 1
        /\ \A i, j \in 1..Len(all_bids) : all_bids[i].q_factor = all_bids[j].q_factor

\* C27: the synthetic feature is applied only to traffic with no other feature,
\* and the penalties multiply: IP concentration alone gives 0.5, fixed
\* coordinates alone 0.6, both 0.3, the synthetic feature alone a q_factor in
\* [0.3, 0.7], no feature 1.0; the QUALITY_SCORE decision is WARNING exactly when
\* q_factor < 0.5 and PASS otherwise.
C27_PenaltiesMultiplyAndSyntheticOnlyOnClean ==
    score_calls.calls > 0 =>
        LET f == score_out.fraud_features
            q == score_out.q_factor
        IN  /\ (\E i \in 1..Len(f) : f[i] = "SYNTHETIC") =>
                  (f = <<"SYNTHETIC">> /\ q >= 3 /\ q <= 7)
            /\ f = <<>> => q = QOne
            /\ f = <<"IP_CONCENTRATED">> => q = 5
            /\ f = <<"FIXED_COORDINATES">> => q = 6
            /\ f = <<"IP_CONCENTRATED", "FIXED_COORDINATES">> => q = 3
            /\ score_out.decision = "WARNING" <=> q < 5
            /\ score_out.decision = "PASS" <=> q >= 5

\* a call on clean traffic drew the synthetic feature at its strongest
C27_Witness ==
    /\ score_calls.calls > 0
    /\ score_out.fraud_features = <<"SYNTHETIC">>
    /\ score_out.q_factor = 3
    /\ score_out.decision = "WARNING"

-----------------------------------------------------------------------------
(* Properties of re_rank *)

\* the items of re_ranked that stood before position i of the ranked list
SelectedBefore(i) == SelectSeq(re_ranked, LAMBDA c : ~c.is_ad /\ c.content_id < i)

IsSelected(i) == \E k \in 1..Len(re_ranked) : ~re_ranked[k].is_ad /\ re_ranked[k].content_id = i

\* C28: without sponsored items, an item is skipped exactly when at least two of
\* the previous three selected items share its author, so no author appears three
\* or more times in any four consecutive output items, and the output is a
\* subsequence of the ranked input.
C28_SameAuthorSpread ==
    ads_content = <<>> =>
        /\ \A i \in 1..Len(ranked_content) :
              ~IsSelected(i) <=>
                  SameAuthorCount(LastN(SelectedBefore(i), 3), ranked_content[i].author_id) >= 2
        /\ \A k \in 1..(Len(re_ranked) - 3) : \A a \in Authors :
              SameAuthorCount(SubSeq(re_ranked, k, k + 3), a) < 3
        /\ \A k \in 1..Len(re_ranked) :
              /\ re_ranked[k].content_id \in 1..Len(ranked_content)
              /\ re_ranked[k] = ranked_content[re_ranked[k].content_id]
              /\ k > 1 => re_ranked[k - 1].content_id < re_ranked[k].content_id

\* a full ranked list was re-ranked without sponsored items and lost some items
C28_Witness ==
    /\ ads_content = <<>>
    /\ Len(ranked_content) = MaxRanked
    /\ Len(re_ranked) >= 4
    /\ Len(re_ranked) < Len(ranked_content)

\* the sponsored and the organic items among the first k of re_ranked
AdsUpTo(k) == Cardinality({h \in 1..k : re_ranked[h].is_ad})
OrganicUpTo(k) == Cardinality({h \in 1..k : ~re_ranked[h].is_ad})

\* C29: sponsored items are interleaved at a fixed cadence, one after every 5
\* organic items of the output while sponsored items remain, in the order
\* supplied, however many ranked items were skipped.
C29_AdAfterEveryFiveOrganic ==
    LET n == Len(re_ranked)
        placed == SelectSeq(re_ranked, LAMBDA c : c.is_ad)
    IN  /\ \A j \in 1..Len(placed) :
              j <= Len(ads_content) /\ placed[j] = AdCopy(ads_content[j])
        /\ \A k \in 1..n : re_ranked[k].is_ad => OrganicUpTo(k) = 5 * AdsUpTo(k)
        /\ Len(placed) = Min(Len(ads_content), OrganicUpTo(n) \div 5)

-----------------------------------------------------------------------------
(* Requests with missing fields *)

LacksDeviceAndApp(req) == req.device_id = "" /\ req.app_id = ""

FilterReasons ==
    {"IN_BLACKLIST", "NOT_IN_BLACKLIST", "SIZE_MATCHED", "SIZE_MISMATCH", "LATENCY_OK",
     "LATENCY_TIMEOUT", "CREATIVE_MATCHED", "CREATIVE_MISMATCH", "BID_ABOVE_FLOOR",
     "BID_BELOW_FLOOR", "FLOOR_PRICE_HIGH"}

\* C30: a request with a missing field is rejected by the filter that needs the
\* field: a request lacking device_id and app_id is not passed by BlacklistFilter
\* as NOT_IN_BLACKLIST, and process_request returns a (passed, reason_code) pair
\* that rejects it.
C30_MissingFieldsRejected ==
    /\ (pc = "done" /\ op = "filter_apply" /\ result.filter = "BlacklistFilter"
          /\ LacksDeviceAndApp(ad_request)) =>
            (~result.passed /\ result.reason_code # "NOT_IN_BLACKLIST")
    /\ (pc = "done" /\ op = "process_request") =>
            /\ result.passed \in BOOLEAN
            /\ result.reason_code \in FilterReasons \cup {"ALL_FILTERS_PASSED"}
            /\ LacksDeviceAndApp(ad_request) => ~result.passed

====
